---------------------------- MODULE Spec2Model ----------------------------
(***************************************************************************)
(* A model of the Jack toolchain of this repository:                       *)
(*   - src/JackCompiler.py : SymbolTable, VMWriter, CompilationEngine      *)
(*   - src/VMtranslator.py : Counter, translate_to_assembly, the main loop *)
(* Every compile_* method of the engine is an operator from engine state   *)
(* to engine state, translated statement by statement; Python loops are    *)
(* RECURSIVE operators.  Emitted VM instructions are tuples of strings     *)
(* (opcode, operands), numbers converted with ToString as str() does.      *)
(***************************************************************************)
EXTENDS Integers, Sequences, FiniteSets, TLC

VARIABLES
    st,      \* SpecST: one SymbolTable object
    log,     \* SpecST: the calls made on st so far (history)
    prog,    \* SpecCE / SpecStmt: the input given to the compiler
    eng,     \* SpecCE / SpecStmt: the CompilationEngine with its tokenizer and writer
    phase,   \* SpecCE / SpecStmt: position of the driver
    vm,      \* SpecVM: the machine translator's run
    tokenizer  \* SpecTok: a JackTokenizer over a file of characters

vars == <<st, log, prog, eng, phase, vm, tokenizer>>

-----------------------------------------------------------------------------
(* Bounds of the model *)

MaxCalls == 3      \* SpecST: calls made on the symbol table
MaxSubs == 2       \* SpecCE: subroutines in a class
MaxIntConst == 2   \* largest integer constant token of the inputs
MaxLines == 4      \* SpecVM: lines read in one run of the translator
MaxUnits == 2      \* SpecVM: files of the directory translated
MaxConstant == 8   \* largest number written in an assembly text
MaxSteps == 64     \* instructions the target machine executes in one run
MaxFileLen == 4    \* SpecTok: characters of a file, the longer files apart
MaxTokCalls == 3   \* SpecTok: calls made on the tokenizer
MaxOffset == 2     \* SpecCmp: operands this near to 0 and to the sign change
MaxFiles == 3      \* SpecRun: files of the directory compiled
MaxChain == 3      \* SpecBody: terms of an expression t1 op1 t2 ...
MaxArgs == 2       \* SpecBody: arguments of a call

-----------------------------------------------------------------------------
(* src/JackCompiler.py, lines 7-15 *)

KEYWORDS == {"class", "constructor", "function", "method", "field", "static",
             "var", "int", "char", "boolean", "void", "true", "false", "null",
             "this", "let", "do", "if", "else", "while", "return"}
SYMBOLS == {"{", "}", "[", "]", "(", ")", ".", ",", ";", "+", "-", "*", "/",
            "&", "|", "<", ">", "=", "~"}
OP == {"+", "-", "*", "/", "&", "|", "<", ">", "="}
UNARY_OP == {"-", "~"}
KW_CONST == {"true", "false", "null", "this"}

\* Python's None
None == "None"

-----------------------------------------------------------------------------
(* class SymbolTable *)

EmptyTable == [n \in {} |-> <<>>]

\* SymbolTable.__init__
NewSymbolTable ==
    [table |-> EmptyTable, statics |-> 0, fields |-> 0, args |-> 0, variables |-> 0]

start_subroutine_keeps_entries(t) == [t EXCEPT !.args = 0, !.variables = 0]

start_subroutine_keeps_locals(t) == [t EXCEPT !.table = EmptyTable, !.args = 0]

\* SymbolTable.start_subroutine
start_subroutine(t) ==
    [t EXCEPT !.table = EmptyTable, !.args = 0, !.variables = 0]

\* self.__table[name] = [kind, sym_type, cur_index]
SetEntry(tab, name, entry) ==
    [n \in (DOMAIN tab) \cup {name} |-> IF n = name THEN entry ELSE tab[n]]

define_no_increment(t, name, kind, sym_type) ==
    LET cur_index == IF kind = "field" THEN t.fields
                     ELSE IF kind = "static" THEN t.statics
                     ELSE IF kind = "argument" THEN t.args
                     ELSE t.variables
    IN  [t EXCEPT !.table = SetEntry(t.table, name, <<kind, sym_type, cur_index>>)]

\* SymbolTable.define
define(t, name, kind, sym_type) ==
    IF kind = "field" THEN
        [t EXCEPT !.fields = t.fields + 1,
                  !.table = SetEntry(t.table, name, <<kind, sym_type, t.fields>>)]
    ELSE IF kind = "static" THEN
        [t EXCEPT !.statics = t.statics + 1,
                  !.table = SetEntry(t.table, name, <<kind, sym_type, t.statics>>)]
    ELSE IF kind = "argument" THEN
        [t EXCEPT !.args = t.args + 1,
                  !.table = SetEntry(t.table, name, <<kind, sym_type, t.args>>)]
    ELSE
        [t EXCEPT !.variables = t.variables + 1,
                  !.table = SetEntry(t.table, name, <<kind, sym_type, t.variables>>)]

\* SymbolTable.var_count
var_count(t, kind) ==
    IF kind = "field" THEN t.fields
    ELSE IF kind = "static" THEN t.statics
    ELSE IF kind = "argument" THEN t.args
    ELSE t.variables

\* SymbolTable.kind_of / type_of / index_of
kind_of(t, name) == IF name \in DOMAIN t.table THEN t.table[name][1] ELSE None
type_of(t, name) == IF name \in DOMAIN t.table THEN t.table[name][2] ELSE None
index_of(t, name) == IF name \in DOMAIN t.table THEN t.table[name][3] ELSE None

-----------------------------------------------------------------------------
(* class JackTokenizer, as the engine sees it: a stream of tokens.  The     *)
(* file is the sequence toks of token texts, pos the number of tokens      *)
(* consumed, cur the current token.                                        *)

\* the string-constant tokens of the inputs, with the character codes ord() gives
StringConsts == [t \in {"\"hi\"", "\"\""} |->
                    IF t = "\"hi\"" THEN <<104, 105>> ELSE <<>>]

\* str.isdigit() on the token texts of the inputs
isdigit(tok) == tok \in {ToString(n) : n \in 0..MaxIntConst}

\* JackTokenizer.int_val
int_val(tok) == CHOOSE n \in 0..MaxIntConst : ToString(n) = tok

\* JackTokenizer.string_val, as the codes of its characters
string_val(tok) == StringConsts[tok]

\* JackTokenizer.token_type
token_type(tok) ==
    IF tok \in KEYWORDS THEN "keyword"
    ELSE IF tok \in SYMBOLS THEN "symbol"
    ELSE IF isdigit(tok) THEN "integerConstant"
    ELSE IF tok \in DOMAIN StringConsts THEN "stringConstant"
    ELSE "identifier"

Ok(e) == e.status = "ok"

\* JackTokenizer.has_more_tokens: some token is left in the file
has_more_tokens(e) == e.pos < Len(e.toks)

\* JackTokenizer.advance: at end of input read(1) returns '' and ord('')
\* raises TypeError, which nothing catches
advance(e) ==
    IF ~Ok(e) THEN e
    ELSE IF e.pos < Len(e.toks)
         THEN [e EXCEPT !.pos = e.pos + 1, !.cur = e.toks[e.pos + 1]]
         ELSE [e EXCEPT !.status = "crash"]

-----------------------------------------------------------------------------
(* class VMWriter: one line of output per call *)

write(e, line) == IF Ok(e) THEN [e EXCEPT !.out = Append(e.out, line)] ELSE e

write_push(e, segment, index) == write(e, <<"push", segment, ToString(index)>>)
write_pop(e, segment, index) == write(e, <<"pop", segment, ToString(index)>>)
write_arithmetic(e, command) == write(e, <<command>>)
write_label(e, label) == write(e, <<"label", label>>)
write_goto(e, label) == write(e, <<"goto", label>>)
write_if(e, label) == write(e, <<"if-goto", label>>)
write_call(e, name, args_num) == write(e, <<"call", name, ToString(args_num)>>)
write_function(e, name, locals_num) == write(e, <<"function", name, ToString(locals_num)>>)
write_return(e) == write(e, <<"return">>)
close(e) == IF Ok(e) THEN [e EXCEPT !.closed = TRUE] ELSE e

-----------------------------------------------------------------------------
(* class CompilationEngine *)

\* CompilationEngine.__init__ over a tokenizer reading toks
NewEngine(toks) ==
    [toks |-> toks, pos |-> 0, cur |-> "", out |-> <<>>,
     ct |-> NewSymbolTable, sbt |-> NewSymbolTable,
     class_name |-> "", cur_subroutine |-> "",
     if_label |-> 0, while_label |-> 0,
     status |-> "ok", closed |-> FALSE]

\* self.__class_table.define(...) / self.__subroutine_table.define(...)
class_define(e, name, kind, sym_type) ==
    IF Ok(e) THEN [e EXCEPT !.ct = define(e.ct, name, kind, sym_type)] ELSE e
sub_define(e, name, kind, sym_type) ==
    IF Ok(e) THEN [e EXCEPT !.sbt = define(e.sbt, name, kind, sym_type)] ELSE e

push_identifier_class_first(e, var_name) ==
    IF ~Ok(e) THEN <<e, FALSE>>
    ELSE IF kind_of(e.ct, var_name) # None THEN
        IF kind_of(e.ct, var_name) = "field"
        THEN <<write_push(e, "this", index_of(e.ct, var_name)), TRUE>>
        ELSE <<write_push(e, "static", index_of(e.ct, var_name)), TRUE>>
    ELSE IF kind_of(e.sbt, var_name) # None THEN
        IF kind_of(e.sbt, var_name) = "argument"
        THEN <<write_push(e, "argument", index_of(e.sbt, var_name)), TRUE>>
        ELSE <<write_push(e, "local", index_of(e.sbt, var_name)), TRUE>>
    ELSE <<e, FALSE>>

\* CompilationEngine.__push_identifier: <<engine, returned value>>
push_identifier(e, var_name) ==
    IF ~Ok(e) THEN <<e, FALSE>>
    ELSE IF kind_of(e.sbt, var_name) # None THEN
        IF kind_of(e.sbt, var_name) = "argument"
        THEN <<write_push(e, "argument", index_of(e.sbt, var_name)), TRUE>>
        ELSE <<write_push(e, "local", index_of(e.sbt, var_name)), TRUE>>
    ELSE IF kind_of(e.ct, var_name) # None THEN
        IF kind_of(e.ct, var_name) = "field"
        THEN <<write_push(e, "this", index_of(e.ct, var_name)), TRUE>>
        ELSE <<write_push(e, "static", index_of(e.ct, var_name)), TRUE>>
    ELSE <<e, FALSE>>

\* CompilationEngine.__pop_identifier
pop_identifier(e, var_name) ==
    IF ~Ok(e) THEN e
    ELSE IF kind_of(e.sbt, var_name) # None THEN
        IF kind_of(e.sbt, var_name) = "argument"
        THEN write_pop(e, "argument", index_of(e.sbt, var_name))
        ELSE write_pop(e, "local", index_of(e.sbt, var_name))
    ELSE IF kind_of(e.ct, var_name) # None THEN
        IF kind_of(e.ct, var_name) = "field"
        THEN write_pop(e, "this", index_of(e.ct, var_name))
        ELSE write_pop(e, "static", index_of(e.ct, var_name))
    ELSE e

write_operator_no_calls(e, op) ==
    IF op = "+" THEN write_arithmetic(e, "add")
    ELSE IF op = "-" THEN write_arithmetic(e, "sub")
    ELSE IF op = "*" THEN write_arithmetic(e, "add")
    ELSE IF op = "/" THEN write_arithmetic(e, "sub")
    ELSE IF op = "&" THEN write_arithmetic(e, "and")
    ELSE IF op = "|" THEN write_arithmetic(e, "or")
    ELSE IF op = "<" THEN write_arithmetic(e, "lt")
    ELSE IF op = ">" THEN write_arithmetic(e, "gt")
    ELSE write_arithmetic(e, "eq")

\* CompilationEngine.__write_operator
write_operator(e, op) ==
    IF op = "+" THEN write_arithmetic(e, "add")
    ELSE IF op = "-" THEN write_arithmetic(e, "sub")
    ELSE IF op = "*" THEN write_call(e, "Math.multiply", 2)
    ELSE IF op = "/" THEN write_call(e, "Math.divide", 2)
    ELSE IF op = "&" THEN write_arithmetic(e, "and")
    ELSE IF op = "|" THEN write_arithmetic(e, "or")
    ELSE IF op = "<" THEN write_arithmetic(e, "lt")
    ELSE IF op = ">" THEN write_arithmetic(e, "gt")
    ELSE write_arithmetic(e, "eq")

\* CompilationEngine.__write_unary_operator
write_unary_operator(e, un_op) ==
    IF un_op = "-" THEN write_arithmetic(e, "neg") ELSE write_arithmetic(e, "not")

\* The compile_* methods call one another recursively; every such call goes
\* through Compile, which hands the engine to the method named.
RECURSIVE Compile(_, _), expression_loop(_), expression_list_loop(_, _),
          append_chars(_, _)

\* for char in string_val(): push constant ord(char); call String.appendChar 2
append_chars(e, codes) ==
    IF codes = <<>> THEN e
    ELSE append_chars(write_call(write_push(e, "constant", Head(codes)),
                                 "String.appendChar", 2), Tail(codes))

\* CompilationEngine.compile_term
compile_term(e) ==
    IF ~Ok(e) THEN e
    ELSE LET tt == token_type(e.cur) IN
    IF tt = "integerConstant" THEN
        advance(write_push(e, "constant", int_val(e.cur)))
    ELSE IF tt = "stringConstant" THEN
        LET e1 == write_push(e, "constant", Len(string_val(e.cur)))
            e2 == write_call(e1, "String.new", 1)
            e3 == append_chars(e2, string_val(e.cur))
        IN  advance(e3)
    ELSE IF tt = "keyword" /\ e.cur \in KW_CONST THEN
        LET kw == e.cur
            e1 == IF kw = "true"
                  THEN write_arithmetic(write_push(e, "constant", 1), "neg")
                  ELSE IF kw = "false" \/ kw = "null"
                  THEN write_push(e, "constant", 0)
                  ELSE write_push(e, "pointer", 0)
        IN  advance(e1)
    ELSE IF tt = "symbol" THEN
        IF e.cur \in UNARY_OP THEN
            LET un_op == e.cur
                e1 == advance(e)
                e2 == Compile("term", e1)
            IN  write_unary_operator(e2, un_op)
        ELSE IF e.cur = "(" THEN
            LET e1 == advance(e)
                e2 == Compile("expression", e1)
            IN  advance(e2)
        ELSE e
    ELSE
        LET first_iden == e.cur
            e1 == advance(e)
        IN
        IF ~Ok(e1) THEN e1
        ELSE IF e1.cur = "[" THEN
            LET e2 == advance(e1)
                e3 == push_identifier(e2, first_iden)[1]
                e4 == Compile("expression", e3)
                e5 == write_arithmetic(e4, "add")
                e6 == write_pop(e5, "pointer", 1)
                e7 == write_push(e6, "that", 0)
            IN  advance(e7)
        ELSE IF e1.cur = "(" THEN
            LET e2 == advance(e1)
                e3 == write_push(e2, "pointer", 0)
                r == Compile("expression_list", e3)
                e4 == write_call(r[1], r[1].class_name \o "." \o first_iden, r[2] + 1)
            IN  advance(e4)
        ELSE IF e1.cur = "." THEN
            LET e2 == advance(e1)
                second_iden == e2.cur
                e3 == advance(e2)
                e4 == advance(e3)
                p == push_identifier(e4, first_iden)
                r == Compile("expression_list", p[1])
                e5 == IF ~Ok(r[1]) THEN r[1]
                      ELSE IF p[2] THEN
                          IF kind_of(r[1].sbt, first_iden) # None
                          THEN write_call(r[1], type_of(r[1].sbt, first_iden)
                                                \o "." \o second_iden, r[2] + 1)
                          ELSE write_call(r[1], type_of(r[1].ct, first_iden)
                                                \o "." \o second_iden, r[2] + 1)
                      ELSE write_call(r[1], first_iden \o "." \o second_iden, r[2])
            IN  advance(e5)
        ELSE push_identifier(e1, first_iden)[1]

\* compile_expression, lines 716-720: while token is an operator
expression_loop(e) ==
    IF Ok(e) /\ token_type(e.cur) = "symbol" /\ e.cur \in OP THEN
        LET op == e.cur
            e1 == advance(e)
            e2 == Compile("term", e1)
        IN  expression_loop(write_operator(e2, op))
    ELSE e

\* CompilationEngine.compile_expression
compile_expression(e) == expression_loop(Compile("term", e))

\* compile_expression_list, lines 808-811: while symbol() != ')'
expression_list_loop(e, expressions_num) ==
    IF Ok(e) /\ e.cur # ")" THEN
        LET e1 == advance(e)
            e2 == Compile("expression", e1)
        IN  expression_list_loop(e2, expressions_num + 1)
    ELSE <<e, expressions_num>>

\* CompilationEngine.compile_expression_list: <<engine, expressions_num>>
compile_expression_list(e) ==
    IF ~Ok(e) THEN <<e, 0>>
    ELSE IF ~(token_type(e.cur) = "symbol" /\ e.cur = ")")
         THEN expression_list_loop(Compile("expression", e), 1)
         ELSE expression_list_loop(e, 0)

\* CompilationEngine.compile_return
compile_return(e) ==
    IF ~Ok(e) THEN e
    ELSE LET e1 == advance(e) IN
         IF ~Ok(e1) THEN e1
         ELSE LET e2 == IF token_type(e1.cur) # "symbol" \/ e1.cur # ";"
                        THEN Compile("expression", e1)
                        ELSE write_push(e1, "constant", 0)
              IN  advance(write_return(e2))

\* CompilationEngine.compile_do
compile_do(e) ==
    IF ~Ok(e) THEN e
    ELSE LET e1 == advance(e)
             e2 == Compile("term", e1)
             e3 == advance(e2)
         IN  write_pop(e3, "temp", 0)

\* self.__while_label += 1 (line 663)
next_while_label_stuck(e) == e.while_label

next_while_label(e) == e.while_label + 1

next_if_label_stuck(e) == e.if_label

\* self.__if_label += 1 (line 625)
next_if_label(e) == e.if_label + 1

\* CompilationEngine.compile_while
compile_while(e) ==
    IF ~Ok(e) THEN e
    ELSE LET l1 == "WHILE_START&" \o ToString(e.while_label)
             l2 == "WHILE_END&" \o ToString(e.while_label)
             e0 == [e EXCEPT !.while_label = next_while_label(e)]
             e1 == advance(advance(e0))
             e2 == write_label(e1, l1)
             e3 == Compile("expression", e2)
             e4 == write_if(write_arithmetic(e3, "not"), l2)
             e5 == advance(advance(e4))
             e6 == Compile("statements", e5)
             e7 == write_label(write_goto(e6, l1), l2)
         IN  advance(e7)

compile_if_always_goto(e) ==
    IF ~Ok(e) THEN e
    ELSE LET l1 == "IF_END&" \o ToString(e.if_label)
             l2 == "ELSE_START&" \o ToString(e.if_label)
             e0 == [e EXCEPT !.if_label = next_if_label(e)]
             e1 == advance(advance(e0))
             e2 == Compile("expression", e1)
             e3 == advance(advance(e2))
             e4 == write_if(write_arithmetic(e3, "not"), l1)
             e5 == Compile("statements", e4)
             e6 == write_goto(advance(e5), l2)
         IN
         IF ~Ok(e6) THEN e6
         ELSE IF token_type(e6.cur) = "keyword" /\ e6.cur = "else" THEN
             LET e7 == advance(advance(e6))
                 e8 == write_label(e7, l1)
                 e9 == Compile("statements", e8)
                 e10 == advance(e9)
             IN  write_label(e10, l2)
         ELSE write_label(e6, l1)

\* CompilationEngine.compile_if
compile_if(e) ==
    IF ~Ok(e) THEN e
    ELSE LET l1 == "IF_END&" \o ToString(e.if_label)
             l2 == "ELSE_START&" \o ToString(e.if_label)
             e0 == [e EXCEPT !.if_label = next_if_label(e)]
             e1 == advance(advance(e0))
             e2 == Compile("expression", e1)
             e3 == advance(advance(e2))
             e4 == write_if(write_arithmetic(e3, "not"), l1)
             e5 == Compile("statements", e4)
             e6 == advance(e5)
         IN
         IF ~Ok(e6) THEN e6
         ELSE IF token_type(e6.cur) = "keyword" /\ e6.cur = "else" THEN
             LET e7 == advance(advance(e6))
                 e8 == write_label(write_goto(e7, l2), l1)
                 e9 == Compile("statements", e8)
                 e10 == advance(e9)
             IN  write_label(e10, l2)
         ELSE write_label(e6, l1)

\* CompilationEngine.compile_let
compile_let(e) ==
    IF ~Ok(e) THEN e
    ELSE LET e1 == advance(e)
             var_name == e1.cur
             e2 == advance(e1)
         IN
         IF ~Ok(e2) THEN e2
         ELSE LET in_arr == e2.cur = "["
                  e3 == IF in_arr
                        THEN LET a1 == push_identifier(e2, var_name)[1]
                                 a2 == advance(a1)
                                 a3 == Compile("expression", a2)
                                 a4 == write_arithmetic(a3, "add")
                             IN  advance(a4)
                        ELSE e2
                  e4 == advance(e3)
                  e5 == Compile("expression", e4)
                  e6 == advance(e5)
              IN  IF in_arr
                  THEN write_pop(write_push(write_pop(write_pop(e6, "temp", 0),
                                 "pointer", 1), "temp", 0), "that", 0)
                  ELSE pop_identifier(e6, var_name)

\* CompilationEngine.compile_statements
compile_statements(e) ==
    IF Ok(e) /\ token_type(e.cur) = "keyword" THEN
        LET cur_token == e.cur IN
        Compile("statements",
            IF cur_token = "let" THEN Compile("let", e)
            ELSE IF cur_token = "if" THEN Compile("if", e)
            ELSE IF cur_token = "while" THEN Compile("while", e)
            ELSE IF cur_token = "do" THEN Compile("do", e)
            ELSE Compile("return", e))
    ELSE e

\* a call of the method compile_<method> on engine e
Compile(method, e) ==
    CASE method = "term" -> compile_term(e)
      [] method = "expression" -> compile_expression(e)
      [] method = "expression_list" -> compile_expression_list(e)
      [] method = "return" -> compile_return(e)
      [] method = "do" -> compile_do(e)
      [] method = "while" -> compile_while(e)
      [] method = "if" -> compile_if(e)
      [] method = "let" -> compile_let(e)
      [] method = "statements" -> compile_statements(e)

RECURSIVE class_var_dec_loop(_, _, _), parameter_list_loop(_),
          var_dec_loop(_, _), var_decs(_)

\* compile_class_var_dec, lines 441-446: (',' varName)*
class_var_dec_loop(e, cur_kind, cur_type) ==
    IF Ok(e) /\ e.cur = "," THEN
        LET e1 == advance(e)
            e2 == class_define(e1, e1.cur, cur_kind, cur_type)
        IN  class_var_dec_loop(advance(e2), cur_kind, cur_type)
    ELSE e

\* CompilationEngine.compile_class_var_dec
compile_class_var_dec(e) ==
    LET cur_kind == e.cur
        e1 == advance(e)
        cur_type == e1.cur
        e2 == advance(e1)
        e3 == class_define(e2, e2.cur, cur_kind, cur_type)
        e4 == advance(e3)
        e5 == class_var_dec_loop(e4, cur_kind, cur_type)
    IN  advance(e5)

\* compile_parameter_list, lines 493-503: (',' type varName)*
parameter_list_loop(e) ==
    IF Ok(e) /\ e.cur # ")" THEN
        LET e1 == advance(e)
            cur_type == e1.cur
            e2 == advance(e1)
            e3 == sub_define(e2, e2.cur, "argument", cur_type)
        IN  parameter_list_loop(advance(e3))
    ELSE e

\* CompilationEngine.compile_parameter_list
compile_parameter_list(e) ==
    IF Ok(e) /\ token_type(e.cur) # "symbol" THEN
        LET cur_type == e.cur
            e1 == advance(e)
            e2 == sub_define(e1, e1.cur, "argument", cur_type)
        IN  parameter_list_loop(advance(e2))
    ELSE e

\* compile_var_dec, lines 555-559: (',' varName)*
var_dec_loop(e, cur_type) ==
    IF Ok(e) /\ e.cur = "," THEN
        LET e1 == advance(e)
            e2 == sub_define(e1, e1.cur, "variable", cur_type)
        IN  var_dec_loop(advance(e2), cur_type)
    ELSE e

\* CompilationEngine.compile_var_dec
compile_var_dec(e) ==
    LET e1 == advance(e)
        cur_type == e1.cur
        e2 == advance(e1)
        e3 == sub_define(e2, e2.cur, "variable", cur_type)
        e4 == advance(e3)
        e5 == var_dec_loop(e4, cur_type)
    IN  advance(e5)

\* compile_subroutine_body, lines 515-517: varDec*
var_decs(e) ==
    IF Ok(e) /\ token_type(e.cur) = "keyword" /\ e.cur = "var"
    THEN var_decs(compile_var_dec(e))
    ELSE e

function_locals_counts_fields(e) ==
    var_count(e.sbt, "variable") + var_count(e.ct, "field")

\* the local count handed to write_function (line 521)
function_locals(e) == var_count(e.sbt, "variable")

\* the size handed to Memory.alloc (line 528)
alloc_size(e) == var_count(e.ct, "field")

\* CompilationEngine.compile_subroutine_body
compile_subroutine_body(e, sub_type) ==
    LET e1 == advance(e)
        e2 == var_decs(e1)
    IN
    IF ~Ok(e2) THEN e2
    ELSE
    LET e3 == write_function(e2, e2.class_name \o "." \o e2.cur_subroutine,
                             function_locals(e2))
        e4 == IF sub_type = "method" THEN
                  write_pop(write_push(e3, "argument", 0), "pointer", 0)
              ELSE IF sub_type = "constructor" THEN
                  write_pop(write_call(write_push(e3, "constant", alloc_size(e3)),
                                       "Memory.alloc", 1), "pointer", 0)
              ELSE e3
        e5 == compile_statements(e4)
    IN  advance(e5)

compile_subroutine_dec_always_this(e) ==
    LET e1 == [e EXCEPT !.sbt = start_subroutine(e.sbt)]
        subroutine_type == e.cur
        e2 == sub_define(e1, "this", "argument", e.class_name)
        e3 == advance(advance(e2))
        e4 == IF Ok(e3) THEN [e3 EXCEPT !.cur_subroutine = e3.cur] ELSE e3
        e5 == advance(advance(e4))
        e6 == compile_parameter_list(e5)
        e7 == advance(e6)
    IN  compile_subroutine_body(e7, subroutine_type)

\* CompilationEngine.compile_subroutine_dec
compile_subroutine_dec(e) ==
    LET e1 == [e EXCEPT !.sbt = start_subroutine(e.sbt)]
        subroutine_type == e.cur
        e2 == IF e.cur = "method"
              THEN sub_define(e1, "this", "argument", e.class_name)
              ELSE e1
        e3 == advance(advance(e2))
        e4 == IF Ok(e3) THEN [e3 EXCEPT !.cur_subroutine = e3.cur] ELSE e3
        e5 == advance(advance(e4))
        e6 == compile_parameter_list(e5)
        e7 == advance(e6)
    IN  compile_subroutine_body(e7, subroutine_type)

\* compile_class, lines 402-408: 'class' className '{'
compile_class_head(e) ==
    LET e1 == advance(e)
        e2 == IF Ok(e1) THEN [e1 EXCEPT !.class_name = e1.cur] ELSE e1
    IN  advance(advance(e2))

RECURSIVE class_var_decs(_), subroutine_decs(_)

\* compile_class, lines 408-411
class_var_decs(e) ==
    IF Ok(e) /\ (e.cur = "static" \/ e.cur = "field")
    THEN class_var_decs(compile_class_var_dec(e))
    ELSE e

\* compile_class, lines 414-417
subroutine_decs(e) ==
    IF Ok(e) /\ (e.cur = "function" \/ e.cur = "method" \/ e.cur = "constructor")
    THEN subroutine_decs(compile_subroutine_dec(e))
    ELSE e

\* CompilationEngine.compile_class
compile_class(e) == close(subroutine_decs(class_var_decs(compile_class_head(e))))

-----------------------------------------------------------------------------
(* Inputs of the compiler: classes put together from declarations and      *)
(* subroutines, written out as the token stream the tokenizer delivers.    *)

RECURSIVE Flatten(_), CommaList(_)

Flatten(ss) == IF ss = <<>> THEN <<>> ELSE Head(ss) \o Flatten(Tail(ss))

CommaList(names) ==
    IF Len(names) = 1 THEN names
    ELSE <<Head(names), ",">> \o CommaList(Tail(names))

\* a declaration d = <<keyword, type, names>>: keyword type n1 , n2 ;
DecTokens(d) == <<d[1], d[2]>> \o CommaList(d[3]) \o <<";">>

\* a parameter list ps of <<type, name>>
ParamTokens(ps) ==
    Flatten([i \in 1..Len(ps) |->
                IF i = 1 THEN ps[i] ELSE <<",">> \o ps[i]])

SubTokens(s) ==
    <<s.kind, s.ret, s.name, "(">> \o ParamTokens(s.params) \o <<")", "{">>
    \o Flatten([i \in 1..Len(s.vars) |-> DecTokens(s.vars[i])])
    \o s.body \o <<"}">>

ClassTokens(c) ==
    <<"class", c.name, "{">>
    \o Flatten([i \in 1..Len(c.cvars) |-> DecTokens(c.cvars[i])])
    \o Flatten([i \in 1..Len(c.subs) |-> SubTokens(c.subs[i])])
    \o <<"}">>

-----------------------------------------------------------------------------
(* Values the variables of the other specifications rest at *)

IdleVM == [status |-> "idle"]
IdleTok == [status |-> "idle"]
IdleEngine == [status |-> "idle"]
IdleProg == <<>>

-----------------------------------------------------------------------------
(* SpecST: one SymbolTable object under any sequence of define and         *)
(* start_subroutine calls.  Kinds are the strings the engine passes:       *)
(* the keyword of a class variable declaration (lines 427, 436),           *)
(* "argument" (lines 460, 488, 501) and "variable" (lines 551, 558), the   *)
(* kind the specification calls local.                                     *)

Names == {"x", "y"}
Kinds == {"static", "field", "argument", "variable"}
Types == {"int", "Main"}

ST_Init ==
    /\ st = NewSymbolTable
    /\ log = <<>>
    /\ prog = IdleProg /\ eng = IdleEngine /\ phase = "idle" /\ vm = IdleVM /\ tokenizer = IdleTok

ST_Define(name, kind, sym_type) ==
    /\ Len(log) < MaxCalls
    /\ st' = define(st, name, kind, sym_type)
    /\ log' = Append(log, <<"define", name, kind, sym_type>>)
    /\ UNCHANGED <<prog, eng, phase, vm, tokenizer>>

ST_StartSubroutine ==
    /\ Len(log) < MaxCalls
    /\ st' = start_subroutine(st)
    /\ log' = Append(log, <<"start_subroutine">>)
    /\ UNCHANGED <<prog, eng, phase, vm, tokenizer>>

ST_Next ==
    \/ \E name \in Names, kind \in Kinds, sym_type \in Types :
          ST_Define(name, kind, sym_type)
    \/ ST_StartSubroutine

SpecST == ST_Init /\ [][ST_Next]_vars

\* the call op sets the counter of kind back to 0 (lines 216-217)
Resets(op, kind) == op[1] = "start_subroutine" /\ kind \in {"argument", "variable"}

\* define calls of kind among log[1..i-1] made since that kind's counter was last reset
DefinesSince(kind, i) ==
    Cardinality({j \in 1..(i - 1) :
        /\ log[j][1] = "define" /\ log[j][3] = kind
        /\ \A r \in (j + 1)..(i - 1) : ~Resets(log[r], kind)})

\* the call that made the binding of name now in the table
BindingCall(name) ==
    CHOOSE i \in 1..Len(log) :
        /\ log[i][1] = "define" /\ log[i][2] = name
        /\ \A j \in (i + 1)..Len(log) : ~(log[j][1] = "define" /\ log[j][2] = name)

\* C8: define(name, kind, type) on a table that already binds name is rejected:
\* the existing binding and every kind counter stay as they were.
C8_DuplicateRejected ==
    [][\A name \in Names, kind \in Kinds, sym_type \in Types :
          (log' = Append(log, <<"define", name, kind, sym_type>>)
             /\ name \in DOMAIN st.table) => st' = st]_vars

-----------------------------------------------------------------------------
(* SpecCE: JackCompiler.__init__ compiling one class.  The class is drawn  *)
(* from Classes; the driver's steps are the iterations of the two loops of *)
(* compile_class.                                                          *)

\* class variable declarations
ClassVarChoices == {
    <<>>,
    << <<"field", "int", <<"x">>>> >>,
    << <<"static", "int", <<"s">>>>, <<"field", "int", <<"x", "y">>>> >>,
    << <<"field", "int", <<"x">>>>, <<"static", "boolean", <<"s", "t">>>>,
       <<"field", "Main", <<"y">>>> >>,
    << <<"field", "int", <<"x", "x">>>> >> }

Sub(kind, ret, name, params, vs, body) ==
    [kind |-> kind, ret |-> ret, name |-> name, params |-> params,
     vars |-> vs, body |-> body]

\* subroutines
SubChoices == {
    Sub("method", "int", "get", <<>>, <<>>, <<"return", "x", ";">>),
    Sub("function", "void", "f", << <<"int", "a">> >>,
        << <<"var", "int", <<"v">>>> >>,
        <<"return", ";">>),
    Sub("function", "void", "g", << <<"int", "a">>, <<"Main", "b">> >>,
        << <<"var", "int", <<"v", "w">>>>, <<"var", "boolean", <<"u">>>> >>,
        <<"let", "v", "=", "a", ";", "return", ";">>),
    Sub("constructor", "Main", "new", <<>>, <<>>, <<"return", "this", ";">>),
    Sub("constructor", "Main", "make", << <<"int", "a">> >>,
        << <<"var", "int", <<"v">>>> >>,
        <<"let", "x", "=", "a", ";", "return", "this", ";">>),
    Sub("method", "void", "m", << <<"int", "a">>, <<"Main", "b">> >>, <<>>,
        <<"if", "(", "a", ")", "{",
              "while", "(", "a", ")", "{", "let", "a", "=", "0", ";", "}",
          "}", "else", "{",
              "if", "(", "a", ")", "{", "}",
          "}",
          "return", ";">>),
    Sub("function", "void", "h", <<>>,
        << <<"var", "int", <<"v", "w">>>> >>,
        <<"while", "(", "v", ")", "{",
              "if", "(", "w", ")", "{", "return", ";", "}",
              "while", "(", "w", ")", "{", "}",
          "}",
          "return", ";">>),
    Sub("method", "void", "n", <<>>,
        << <<"var", "int", <<"v", "v">>>> >>,
        <<"return", ";">>),
    Sub("function", "int", "k", << <<"int", "a">> >>, <<>>,
        <<"if", "(", "a", ")", "{", "return", "1", ";", "}",
          "if", "(", "a", ")", "{", "return", "2", ";", "}",
          "else", "{", "return", "0", ";", "}">>) }

Classes ==
    {[name |-> "Main", cvars |-> cv, subs |-> ss] :
        cv \in ClassVarChoices,
        ss \in UNION {[1..n -> SubChoices] : n \in 0..MaxSubs}}

CE_Init ==
    /\ prog \in Classes
    /\ eng = NewEngine(ClassTokens(prog))
    /\ phase = "start"
    /\ st = NewSymbolTable /\ log = <<>> /\ vm = IdleVM /\ tokenizer = IdleTok

\* where the driver is after a step that left the engine in state e
After(e, next) == IF Ok(e) THEN next ELSE "crashed"

\* JackCompiler.__init__, lines 904-909, and compile_class up to its first loop
CE_Begin ==
    /\ phase = "start"
    /\ IF has_more_tokens(eng)
       THEN LET e == compile_class_head(advance(eng)) IN
            /\ eng' = e
            /\ phase' = After(e, "class_vars")
       ELSE /\ eng' = eng
            /\ phase' = "done"
    /\ UNCHANGED <<st, log, prog, vm, tokenizer>>

\* compile_class, lines 409-411: one iteration of the class variable loop
CE_ClassVarDec ==
    /\ phase = "class_vars"
    /\ eng.cur = "static" \/ eng.cur = "field"
    /\ LET e == compile_class_var_dec(eng) IN
       /\ eng' = e
       /\ phase' = After(e, "class_vars")
    /\ UNCHANGED <<st, log, prog, vm, tokenizer>>

InSubroutineLoop ==
    \/ phase = "subroutines"
    \/ phase = "class_vars" /\ ~(eng.cur = "static" \/ eng.cur = "field")

\* compile_class, lines 415-417: one iteration of the subroutine loop
CE_SubroutineDec ==
    /\ InSubroutineLoop
    /\ eng.cur = "function" \/ eng.cur = "method" \/ eng.cur = "constructor"
    /\ LET e == compile_subroutine_dec(eng) IN
       /\ eng' = e
       /\ phase' = After(e, "subroutines")
    /\ UNCHANGED <<st, log, prog, vm, tokenizer>>

\* compile_class, line 419: the loops are left and the writer is closed
CE_Close ==
    /\ InSubroutineLoop
    /\ ~(eng.cur = "function" \/ eng.cur = "method" \/ eng.cur = "constructor")
    /\ eng' = close(eng)
    /\ phase' = "done"
    /\ UNCHANGED <<st, log, prog, vm, tokenizer>>

CE_Next == CE_Begin \/ CE_ClassVarDec \/ CE_SubroutineDec \/ CE_Close

SpecCE == CE_Init /\ [][CE_Next]_vars

-----------------------------------------------------------------------------
(* Claims about the compiled class *)

IsFunctionLine(l) == l[1] = "function"
IsLabelLine(l) == l[1] = "label"

NoDuplicates(seq) == \A i \in 1..Len(seq), j \in 1..Len(seq) : i # j => seq[i] # seq[j]

\* the names a subroutine declares: its parameters, then its var declarations
ParamNames(s) == [i \in 1..Len(s.params) |-> s.params[i][2]]
VarNames(s) == Flatten([i \in 1..Len(s.vars) |-> s.vars[i][3]])
ValidSub(s) == NoDuplicates(ParamNames(s) \o VarNames(s))

\* C1: for every subroutine that declares no name twice, the count in the emitted
\* `function <Class>.<name> <n>` is the number of names its var declarations
\* declare, whatever its parameters, the class's fields and statics, and the
\* locals of the subroutines compiled before it.
C1_LocalCount ==
    LET fl == SelectSeq(eng.out, IsFunctionLine) IN
    (phase \in {"class_vars", "subroutines", "done"}) =>
        /\ Len(fl) <= Len(prog.subs)
        /\ phase = "done" => Len(fl) = Len(prog.subs)
        /\ \A i \in 1..Len(fl) :
              ValidSub(prog.subs[i]) =>
                  fl[i] = <<"function", prog.name \o "." \o prog.subs[i].name,
                            ToString(Len(VarNames(prog.subs[i])))>>

\* a class with fields whose second subroutine declares fewer locals than its first
C1_Witness ==
    /\ phase = "done"
    /\ Len(prog.cvars) = 2 /\ Len(prog.subs) = 2
    /\ prog.subs[1].name = "g" /\ prog.subs[2].name = "f"
    /\ SelectSeq(eng.out, IsFunctionLine) =
          << <<"function", "Main.g", "3">>, <<"function", "Main.f", "1">> >>

\* the field-kind bindings of the class-scope table
FieldBindings == {n \in DOMAIN eng.ct.table : kind_of(eng.ct, n) = "field"}

AllocSizeIsFieldCount ==
    \A i \in 2..Len(eng.out) :
        eng.out[i] = <<"call", "Memory.alloc", "1">> =>
            eng.out[i - 1] = <<"push", "constant", ToString(Cardinality(FieldBindings))>>

\* C2: for every constructor the constant pushed right before `call Memory.alloc 1`
\* is the number of field-kind bindings of the class, whatever was compiled before.
C2_AllocSize == (phase # "idle") => AllocSizeIsFieldCount

\* the class declares no class-level name twice
ValidClassVars(c) ==
    NoDuplicates(Flatten([i \in 1..Len(c.cvars) |-> c.cvars[i][3]]))

\* C2 on the classes that declare no class-level name twice
AllocSizeOfValidClass == (phase # "idle" /\ ValidClassVars(prog)) => AllocSizeIsFieldCount

\* two constructors, the second after another subroutine, in a class with statics
AllocSizeOfValidClassWitness ==
    /\ phase = "done" /\ ValidClassVars(prog) /\ Len(prog.cvars) = 3
    /\ Len(prog.subs) = 2 /\ prog.subs[2].kind = "constructor"
    /\ Cardinality(FieldBindings) = 2

LabelNames == LET ll == SelectSeq(eng.out, IsLabelLine) IN [i \in 1..Len(ll) |-> ll[i][2]]

CountersNeverDecrease ==
    /\ eng'.if_label >= eng.if_label
    /\ eng'.while_label >= eng.while_label

\* C3: within one compiled class every label name is emitted by exactly one
\* `label` instruction, for siblings, nested constructs and constructs of
\* different subroutines, and neither label counter ever decreases.
C3_UniqueLabels ==
    /\ []NoDuplicates(LabelNames)
    /\ [][CountersNeverDecrease]_vars

\* two subroutines, each with nested if and while statements
C3_Witness ==
    /\ phase = "done" /\ Len(prog.subs) = 2
    /\ prog.subs[1].name = "m" /\ prog.subs[2].name = "h"
    /\ Len(LabelNames) = 10
    /\ eng.if_label = 3 /\ eng.while_label = 3

\* the class of the scenario: one field x, one method get returning x
GetterClass ==
    [name |-> "Main",
     cvars |-> << <<"field", "int", <<"x">>>> >>,
     subs |-> << Sub("method", "int", "get", <<>>, <<>>, <<"return", "x", ";">>) >>]

\* C5: compiling the class with one field x and one method get { return x; }
\* emits exactly function <Class>.get 0, push argument 0, pop pointer 0,
\* push this 0, return.
C5_Getter ==
    (prog = GetterClass /\ phase = "done") =>
        eng.out = << <<"function", "Main.get", "0">>,
                     <<"push", "argument", "0">>,
                     <<"pop", "pointer", "0">>,
                     <<"push", "this", "0">>,
                     <<"return">> >>

C5_Witness == prog = GetterClass /\ phase = "done" /\ eng.closed /\ Len(eng.out) = 5

-----------------------------------------------------------------------------
(* SpecStmt: compile_statements applied to one statement inside a          *)
(* subroutine body.  The engine is in a state compile_subroutine_body      *)
(* reaches before line 533: class Main with fields x, y and static s,      *)
(* subroutine f with arguments a, b and locals v, w, the label counters    *)
(* at the values earlier statements left.                                  *)

LabelStarts == {0, 1}

Conditions == { <<"false">>, <<"a">>, <<"x", "<", "1">>, <<"~", "a">> }

Blocks == { <<>>,
            <<"return", "1", ";">>,
            <<"return", "2", ";">>,
            <<"let", "v", "=", "2", ";">>,
            <<"if", "(", "a", ")", "{", "return", ";", "}">>,
            <<"while", "(", "a", ")", "{", "let", "v", "=", "0", ";", "}">> }

IfInputs ==
    {[kind |-> "if", cond |-> c, s1 |-> b1, s2 |-> b2, has_else |-> TRUE,
      if0 |-> n, while0 |-> n] : c \in Conditions, b1 \in Blocks, b2 \in Blocks,
                                 n \in LabelStarts}
    \cup
    {[kind |-> "if", cond |-> c, s1 |-> b1, s2 |-> <<>>, has_else |-> FALSE,
      if0 |-> n, while0 |-> n] : c \in Conditions, b1 \in Blocks, n \in LabelStarts}

StmtInputs == IfInputs

\* the tokens of the statement of input p
StmtTokens(p) ==
    <<"if", "(">> \o p.cond \o <<")", "{">> \o p.s1 \o <<"}">>
    \o (IF p.has_else THEN <<"else", "{">> \o p.s2 \o <<"}">> ELSE <<>>)

\* the engine about to compile tokens toks, the first of them current
EngineAt(toks, if0, while0) ==
    [NewEngine(toks) EXCEPT
        !.pos = 1, !.cur = toks[1],
        !.class_name = "Main", !.cur_subroutine = "f",
        !.ct = define(define(define(NewSymbolTable, "x", "field", "int"),
                             "y", "field", "Main"), "s", "static", "int"),
        !.sbt = define(define(define(define(start_subroutine(NewSymbolTable),
                    "a", "argument", "int"), "b", "argument", "Main"),
                    "v", "variable", "int"), "w", "variable", "Main"),
        !.if_label = if0, !.while_label = while0]

\* the statement of input p, followed by the '}' that ends the subroutine body
StmtEngine(p) == EngineAt(StmtTokens(p) \o <<"}">>, p.if0, p.while0)

Stmt_Init ==
    /\ prog \in StmtInputs
    /\ eng = StmtEngine(prog)
    /\ phase = "ready"
    /\ st = NewSymbolTable /\ log = <<>> /\ vm = IdleVM /\ tokenizer = IdleTok

\* compile_subroutine_body, line 533
Stmt_Compile ==
    /\ phase = "ready"
    /\ LET e == compile_statements(eng) IN
       /\ eng' = e
       /\ phase' = After(e, "compiled")
    /\ UNCHANGED <<st, log, prog, vm, tokenizer>>

Stmt_Next == Stmt_Compile

SpecStmt == Stmt_Init /\ [][Stmt_Next]_vars

\* the code of expression c, compiled on its own where ')' follows it
CodeOfExpression(c, if0, while0) ==
    compile_expression(EngineAt(c \o <<")">>, if0, while0)).out

\* the engine after statements ss compiled on their own where '}' follows them
AfterStatements(ss, if0, while0) ==
    compile_statements(EngineAt(ss \o <<"}">>, if0, while0))

\* C6: an if with else emits code of c, not, if-goto A, code of S1, goto B,
\* label A, code of S2, label B with A # B; an if without else emits code of c,
\* not, if-goto A, code of S1, label A and no goto; both branches are emitted
\* also when c is the constant false.
C6_IfShape ==
    (phase = "compiled" /\ prog.kind = "if") =>
        LET cc == CodeOfExpression(prog.cond, prog.if0 + 1, prog.while0)
            r1 == AfterStatements(prog.s1, prog.if0 + 1, prog.while0)
            r2 == AfterStatements(prog.s2, r1.if_label, r1.while_label)
            out == eng.out
            ia == Len(cc) + 2
            ib == ia + Len(r1.out) + 1
        IN  /\ Len(out) >= ia
            /\ LET A == out[ia][2] IN
               IF prog.has_else
               THEN /\ Len(out) >= ib
                    /\ LET B == out[ib][2] IN
                       /\ A # B
                       /\ out = cc \o << <<"not">>, <<"if-goto", A>> >> \o r1.out
                                   \o << <<"goto", B>>, <<"label", A>> >> \o r2.out
                                   \o << <<"label", B>> >>
               ELSE out = cc \o << <<"not">>, <<"if-goto", A>> >> \o r1.out
                             \o << <<"label", A>> >>

\* if (false) { return 1; } else { return 2; }
C6_Witness ==
    /\ phase = "compiled" /\ prog.kind = "if" /\ prog.has_else /\ prog.if0 = 0
    /\ prog.cond = <<"false">>
    /\ prog.s1 = <<"return", "1", ";">> /\ prog.s2 = <<"return", "2", ";">>
    /\ eng.out = << <<"push", "constant", "0">>, <<"not">>, <<"if-goto", "IF_END&0">>,
                    <<"push", "constant", "1">>, <<"return">>,
                    <<"goto", "ELSE_START&0">>, <<"label", "IF_END&0">>,
                    <<"push", "constant", "2">>, <<"return">>,
                    <<"label", "ELSE_START&0">> >>

-----------------------------------------------------------------------------
(* SpecUse: one statement that uses the name n, compiled by an engine whose *)
(* two tables bind n or not.  The subroutine-scope table holds a and v      *)
(* before n, the class-scope table x, y, s and t, so that n has index 1 in  *)
(* the first and index 2 in the second.                                    *)

\* a binding of n: None, or <<kind, type>>
SubBindings == {<<None>>, <<"argument", "Point">>, <<"variable", "int">>,
                <<"variable", "Point">>}
ClassBindings == {<<None>>, <<"field", "Main">>, <<"field", "int">>,
                  <<"static", "Array">>}

\* the statements: a read, a write, a method call on n, a write to n[0], a
\* statement that starts with the keyword static, a let without its '='
UseForms ==
    [f \in {"read", "write", "call", "index", "keyword", "no_equals"} |->
        IF f = "read" THEN <<"return", "n", ";">>
        ELSE IF f = "write" THEN <<"let", "n", "=", "1", ";">>
        ELSE IF f = "call" THEN <<"do", "n", ".", "run", "(", ")", ";">>
        ELSE IF f = "index" THEN <<"let", "n", "[", "0", "]", "=", "1", ";">>
        ELSE IF f = "keyword" THEN <<"static", ";">>
        ELSE <<"let", "n", "1", ";">>]

UseInputs ==
    {[sub |-> sb, cls |-> cb, form |-> f] :
        sb \in SubBindings, cb \in ClassBindings, f \in DOMAIN UseForms}

\* table t with n defined as binding b, if b is one
Bind(t, b) == IF b[1] = None THEN t ELSE define(t, "n", b[1], b[2])

\* the engine about to compile the statement of input p, '}' after it
UseEngine(p) ==
    LET toks == UseForms[p.form] \o <<"}">> IN
    [NewEngine(toks) EXCEPT
        !.pos = 1, !.cur = toks[1],
        !.class_name = "Main", !.cur_subroutine = "f",
        !.ct = Bind(define(define(define(define(NewSymbolTable,
                    "x", "field", "int"), "y", "field", "int"),
                    "s", "static", "int"), "t", "static", "int"), p.cls),
        !.sbt = Bind(define(define(start_subroutine(NewSymbolTable),
                    "a", "argument", "int"), "v", "variable", "int"), p.sub)]

Use_Init ==
    /\ prog \in UseInputs
    /\ eng = UseEngine(prog)
    /\ phase = "ready"
    /\ st = NewSymbolTable /\ log = <<>> /\ vm = IdleVM /\ tokenizer = IdleTok

\* compile_subroutine_body, line 533
Use_Compile ==
    /\ phase = "ready"
    /\ LET e == compile_statements(eng) IN
       /\ eng' = e
       /\ phase' = After(e, "compiled")
    /\ UNCHANGED <<st, log, prog, vm, tokenizer>>

Use_Next == Use_Compile

SpecUse == Use_Init /\ [][Use_Next]_vars

\* the segment of a kind
SegmentOf(kind) ==
    IF kind = "argument" THEN "argument"
    ELSE IF kind = "variable" THEN "local"
    ELSE IF kind = "field" THEN "this"
    ELSE "static"

\* the binding a lookup of n must find: subroutine scope first, then class scope
Lookup(p) ==
    IF p.sub[1] # None THEN [seg |-> SegmentOf(p.sub[1]), idx |-> "1", type |-> p.sub[2]]
    ELSE [seg |-> SegmentOf(p.cls[1]), idx |-> "2", type |-> p.cls[2]]

\* C11: a name bound in both tables is read, written and used as the object
\* of a call through its subroutine-scope binding; the class-scope binding
\* is used only when the subroutine-scope table does not hold the name.
C11_SubroutineScopeFirst ==
    (phase = "compiled" /\ prog.form \in {"read", "write", "call", "index"}
     /\ (prog.sub[1] # None \/ prog.cls[1] # None))
        => LET b == Lookup(prog) IN
           eng.out =
             CASE prog.form = "read" ->
                    << <<"push", b.seg, b.idx>>, <<"return">> >>
               [] prog.form = "write" ->
                    << <<"push", "constant", "1">>, <<"pop", b.seg, b.idx>> >>
               [] prog.form = "call" ->
                    << <<"push", b.seg, b.idx>>, <<"call", b.type \o ".run", "1">>,
                       <<"pop", "temp", "0">> >>
               [] prog.form = "index" ->
                    << <<"push", b.seg, b.idx>>, <<"push", "constant", "0">>,
                       <<"add">>, <<"push", "constant", "1">>,
                       <<"pop", "temp", "0">>, <<"pop", "pointer", "1">>,
                       <<"push", "temp", "0">>, <<"pop", "that", "0">> >>

\* n is a local Point and a field Main: the call goes to Point.run on local 1
C11_Witness ==
    /\ phase = "compiled" /\ prog.form = "call"
    /\ prog.sub = <<"variable", "Point">> /\ prog.cls = <<"field", "Main">>
    /\ eng.out = << <<"push", "local", "1">>, <<"call", "Point.run", "1">>,
                    <<"pop", "temp", "0">> >>

\* C17: a statement that starts with a keyword other than let, if, while, do
\* and return, or a let whose '=' is missing, aborts the compilation.
C17_MismatchAborts ==
    (phase # "ready" /\ prog.form \in {"keyword", "no_equals"})
        => (phase = "crashed" /\ eng.out = <<>>)

\* C18: a read of, or a let to, a name that neither table binds aborts the
\* compilation.
C18_UnboundNameAborts ==
    (phase # "ready" /\ prog.form \in {"read", "write"}
     /\ prog.sub[1] = None /\ prog.cls[1] = None)
        => phase = "crashed"

-----------------------------------------------------------------------------
(* class JackTokenizer, character by character (lines 18-193).  The file is *)
(* a sequence of characters with Unix line ends, so that a read in text     *)
(* mode gives the characters as they are and a position counts characters. *)
(* A tokenizer is [file, fp, pos, cur_token, status, ret]: fp is the read   *)
(* position of the file object, pos is self.__pos, cur_token the characters *)
(* of self.__cur_token, ret the value of the last call.  status is "ok",    *)
(* "TypeError" when ord('') raised, or "loop" when the call never returns.  *)

\* line 12
SEPARATORS == {" ", "\n", "\t", "\r"}

Quote == "\""

\* JackTokenizer.__init__
NewTokenizer(file) ==
    [file |-> file, fp |-> 0, pos |-> 0, cur_token |-> <<>>,
     status |-> "ok", ret |-> None]

\* file.read(1) at read position fp: <<character or '', new read position>>
Read1(file, fp) ==
    IF fp < Len(file) THEN <<file[fp + 1], fp + 1>> ELSE <<"", fp>>

\* file.seek(p); file.read(): the rest of the file from position p
ReadRest(file, p) ==
    IF p < Len(file) THEN SubSeq(file, p + 1, Len(file)) ELSE <<>>

\* the positions after fp where the character c stands
Occurrences(file, fp, c) == {i \in (fp + 1)..Len(file) : file[i] = c}

\* the positions after fp where "*/" ends, the '*' read after position from
ClosingSlashes(file, from) ==
    {i \in (from + 2)..Len(file) : file[i - 1] = "*" /\ file[i] = "/"}

Min(S) == CHOOSE x \in S : \A y \in S : x <= y

\* has_more_tokens, lines 38-53: the loop entered with cur_char read and the
\* file at fp; gives <<result, status>>
RECURSIVE has_more_loop(_, _, _)
has_more_loop(file, cur_char, fp) ==
    IF cur_char = "/" THEN
        LET r == Read1(file, fp)
            next_char == r[1]
        IN
        IF next_char = "/" THEN
            \* lines 42-43: read up to a newline; at end of input read(1)
            \* gives '' for ever
            LET nl == Occurrences(file, r[2], "\n") IN
            IF nl = {} THEN <<"None", "loop">>
            ELSE LET c == Read1(file, Min(nl)) IN has_more_loop(file, c[1], c[2])
        ELSE IF next_char = "*" THEN
            \* lines 45-49: read up to a '/' that follows a '*'
            LET ends == ClosingSlashes(file, r[2]) IN
            IF ends = {} THEN <<"None", "loop">>
            ELSE LET c == Read1(file, Min(ends)) IN has_more_loop(file, c[1], c[2])
        ELSE <<"True", "ok">>
    ELSE IF cur_char \in SEPARATORS THEN
        LET c == Read1(file, fp) IN has_more_loop(file, c[1], c[2])
    ELSE <<IF cur_char # "" THEN "True" ELSE "False", "ok">>

\* JackTokenizer.has_more_tokens; the file is left at self.__pos (lines 51, 54)
JackTokenizer_has_more_tokens(t) ==
    LET c == Read1(t.file, t.fp)
        r == has_more_loop(t.file, c[1], c[2])
    IN  IF r[2] = "ok"
        THEN [t EXCEPT !.fp = t.pos, !.ret = r[1]]
        ELSE [t EXCEPT !.fp = Len(t.file), !.status = r[2]]

\* __handle_comment, lines 80-91: the loop over a block comment, entered
\* with prev_char and cur_char, the file at fp and self.__pos = pos
RECURSIVE block_comment_loop(_, _, _, _, _)
block_comment_loop(file, prev_char, cur_char, fp, pos) ==
    IF prev_char = "*" /\ cur_char = "/" THEN [fp |-> fp, pos |-> pos, status |-> "ok"]
    ELSE IF cur_char = "" THEN [fp |-> fp, pos |-> pos, status |-> "loop"]
    ELSE IF cur_char = "\n" THEN
        LET n == Read1(file, fp)
            pos2 == IF n[1] = "\n" THEN pos + 2 ELSE pos + 1
            fp2 == IF n[1] = "\n" THEN n[2] ELSE pos + 1
            c == Read1(file, fp2)
        IN  block_comment_loop(file, cur_char, c[1], c[2], pos2)
    ELSE LET c == Read1(file, fp)
         IN  block_comment_loop(file, cur_char, c[1], c[2], pos + 1)

\* JackTokenizer.__handle_comment with the file at fp and self.__pos = pos
handle_comment(file, fp, pos) ==
    LET c == Read1(file, fp) IN
    IF c[1] = "/" THEN
        \* lines 67-75: a line comment
        LET nl == Occurrences(file, c[2], "\n") IN
        IF nl = {} THEN [fp |-> Len(file), pos |-> pos + 1, status |-> "loop"]
        ELSE LET pos2 == pos + 1 + (Min(nl) - c[2]) IN
             IF ReadRest(file, pos2) = <<"\n">>
             THEN [fp |-> Len(file), pos |-> pos2 + 1, status |-> "ok"]
             ELSE [fp |-> pos2, pos |-> pos2, status |-> "ok"]
    ELSE
        \* lines 77-79
        LET c2 == Read1(file, c[2])
        IN  block_comment_loop(file, "", c2[1], c2[2], pos + 2)

\* advance, lines 100-118: the loop that removes separators and comments;
\* gives the character it ends on
RECURSIVE skip_separators(_, _, _)
skip_separators(file, fp, pos) ==
    LET c == Read1(file, fp)
        cur_char == c[1]
    IN
    IF cur_char = "\n" THEN
        IF ReadRest(file, pos + 1) = <<"\n">>
        THEN skip_separators(file, Len(file), pos + 2)
        ELSE skip_separators(file, pos + 1, pos + 1)
    ELSE IF cur_char = "/" THEN
        LET next_char == Read1(file, c[2])[1] IN
        IF next_char = "/" \/ next_char = "*" THEN
            LET h == handle_comment(file, pos + 1, pos + 1) IN
            IF h.status = "ok" THEN skip_separators(file, h.fp, h.pos)
            ELSE [cur_char |-> " ", fp |-> h.fp, pos |-> h.pos, status |-> h.status]
        ELSE [cur_char |-> cur_char, fp |-> pos + 1, pos |-> pos + 1, status |-> "ok"]
    ELSE IF cur_char \in SEPARATORS THEN skip_separators(file, c[2], pos + 1)
    ELSE [cur_char |-> cur_char, fp |-> c[2], pos |-> pos + 1, status |-> "ok"]

\* JackTokenizer.advance
JackTokenizer_advance(t) ==
    LET s == skip_separators(t.file, t.fp, t.pos) IN
    IF s.status # "ok" THEN [t EXCEPT !.fp = s.fp, !.pos = s.pos, !.status = s.status]
    ELSE IF s.cur_char \in SYMBOLS THEN
        [t EXCEPT !.fp = s.fp, !.pos = s.pos, !.cur_token = <<s.cur_char>>, !.ret = None]
    ELSE IF s.cur_char = "" THEN
        \* line 124: ord('')
        [t EXCEPT !.fp = s.fp, !.pos = s.pos, !.status = "TypeError"]
    ELSE IF s.cur_char = Quote THEN
        \* lines 125-134: up to the next quote; ord('') at end of input
        LET q == Occurrences(t.file, s.fp, Quote) IN
        IF q = {}
        THEN [t EXCEPT !.fp = Len(t.file), !.status = "TypeError",
                       !.pos = s.pos + (Len(t.file) - s.fp) + 1]
        ELSE [t EXCEPT !.fp = Min(q), !.pos = s.pos + (Min(q) - s.fp),
                       !.cur_token = <<Quote>> \o SubSeq(t.file, s.fp + 1, Min(q)),
                       !.ret = None]
    ELSE
        \* lines 136-143: up to a symbol or a separator; '' is neither
        LET ends == {i \in (s.fp + 1)..Len(t.file) :
                        t.file[i] \in SYMBOLS \/ t.file[i] \in SEPARATORS}
        IN
        IF ends = {}
        THEN [t EXCEPT !.fp = Len(t.file), !.status = "loop",
                       !.pos = s.pos + (Len(t.file) - s.fp)]
        ELSE LET pos2 == s.pos + (Min(ends) - s.fp) - 1 IN
             [t EXCEPT !.fp = pos2, !.pos = pos2,
                       !.cur_token = <<s.cur_char>> \o SubSeq(t.file, s.fp + 1, Min(ends) - 1),
                       !.ret = None]

\* the text of a sequence of characters
RECURSIVE TextOf(_)
TextOf(chars) == IF chars = <<>> THEN "" ELSE Head(chars) \o TextOf(Tail(chars))

Digits == {"0", "1", "2", "3", "4", "5", "6", "7", "8", "9"}

\* JackTokenizer.token_type on the characters of the current token
JackTokenizer_token_type(token) ==
    IF TextOf(token) \in KEYWORDS THEN "keyword"
    ELSE IF TextOf(token) \in SYMBOLS THEN "symbol"
    ELSE IF token # <<>> /\ \A i \in 1..Len(token) : token[i] \in Digits
         THEN "integerConstant"
    ELSE IF token = <<>> THEN "IndexError"
    ELSE IF token[1] = Quote THEN "stringConstant"
    ELSE "identifier"

-----------------------------------------------------------------------------
(* SpecTok: calls of has_more_tokens and advance, in any order, on a        *)
(* tokenizer over a file.  tokenizer.calls keeps the calls made.           *)

\* the characters files are made of
Chars == {" ", "\n", "/", "*", "a", "1", ";", Quote}

\* every file of at most MaxFileLen characters
ShortFiles == UNION {[1..n -> Chars] : n \in 0..MaxFileLen}

\* longer files: comments that hold a newline, a keyword, a number before
\* letters
LongFiles == {
    <<"/", "*", "\n", "a", "*", "/", ";", "a", " ">>,
    <<"/", "*", "\n", "*", "/", ";", " ">>,
    <<"/", "*", "a", "\n", " ", "*", "/", "a", " ">>,
    <<"/", "*", "*", " ", "a", " ", "*", "/", "\n", "a", ";">>,
    <<"/", "/", " ", "a", "\n", "a", ";", "\n">>,
    <<"i", "f", " ", "(", "a", ")">>,
    <<"1", "2", "a", "b", ";">>,
    <<"1", "2", " ", "a", "b", ";">>,
    <<Quote, "a", " ", "b", Quote, ";">> }

Files == ShortFiles \cup LongFiles

Tok_Init ==
    /\ tokenizer \in {[calls |-> <<>>] @@ NewTokenizer(file) : file \in Files}
    /\ st = NewSymbolTable /\ log = <<>>
    /\ prog = IdleProg /\ eng = IdleEngine /\ phase = "idle" /\ vm = IdleVM

Tok_HasMoreTokens ==
    /\ tokenizer.status = "ok" /\ Len(tokenizer.calls) < MaxTokCalls
    /\ tokenizer' = [JackTokenizer_has_more_tokens(tokenizer) EXCEPT
                        !.calls = Append(@, "has_more_tokens")]
    /\ UNCHANGED <<st, log, prog, eng, phase, vm>>

Tok_Advance ==
    /\ tokenizer.status = "ok" /\ Len(tokenizer.calls) < MaxTokCalls
    /\ tokenizer' = [JackTokenizer_advance(tokenizer) EXCEPT
                        !.calls = Append(@, "advance")]
    /\ UNCHANGED <<st, log, prog, eng, phase, vm>>

Tok_Next == Tok_HasMoreTokens \/ Tok_Advance

SpecTok == Tok_Init /\ [][Tok_Next]_vars

-----------------------------------------------------------------------------
(* Claims about the tokenizer *)

\* the step is a call of has_more_tokens / of advance
IsHasMoreTokens == tokenizer'.calls = Append(tokenizer.calls, "has_more_tokens")
IsAdvance == tokenizer'.calls = Append(tokenizer.calls, "advance")

\* C12: has_more_tokens consumes nothing: when it returns, the file is at the
\* recorded position, the current token and the recorded position are as
\* before, and the advance that follows gives the token it would have given
\* without the call.
C12_HasMoreTokensPeeks ==
    [][(tokenizer.status = "ok" /\ IsHasMoreTokens /\ tokenizer'.status = "ok")
        => /\ tokenizer'.fp = tokenizer.pos
           /\ tokenizer'.pos = tokenizer.pos
           /\ tokenizer'.cur_token = tokenizer.cur_token
           /\ LET with == JackTokenizer_advance(tokenizer')
                  without == JackTokenizer_advance(tokenizer)
              IN  /\ with.status = without.status
                  /\ with.cur_token = without.cur_token]_vars

\* what is left of a file from position p on: "blank" when only separators
\* and complete comments (a line comment ends at a newline or at the end of
\* the file), "content" when something else comes first, "unterminated"
\* when a block comment is not closed
RECURSIVE Remaining(_, _)
Remaining(file, p) ==
    IF p >= Len(file) THEN "blank"
    ELSE IF file[p + 1] \in SEPARATORS THEN Remaining(file, p + 1)
    ELSE IF file[p + 1] = "/" /\ p + 2 <= Len(file) /\ file[p + 2] = "/" THEN
        LET nl == Occurrences(file, p + 2, "\n") IN
        IF nl = {} THEN "blank" ELSE Remaining(file, Min(nl))
    ELSE IF file[p + 1] = "/" /\ p + 2 <= Len(file) /\ file[p + 2] = "*" THEN
        LET ends == ClosingSlashes(file, p + 2) IN
        IF ends = {} THEN "unterminated" ELSE Remaining(file, Min(ends))
    ELSE "content"

\* C13: has_more_tokens returns False when only separators and complete
\* comments remain, a last line comment without newline included, and True
\* when other content remains.
C13_HasMoreTokensAnswers ==
    [][(tokenizer.status = "ok" /\ tokenizer.fp = tokenizer.pos /\ IsHasMoreTokens)
        => LET left == Remaining(tokenizer.file, tokenizer.pos) IN
           /\ left = "blank" =>
                (tokenizer'.status = "ok" /\ tokenizer'.ret = "False")
           /\ left = "content" =>
                (tokenizer'.status = "ok" /\ tokenizer'.ret = "True")]_vars

\* the file begins with a block comment that is closed
StartsWithBlockComment(file) ==
    /\ Len(file) >= 2 /\ file[1] = "/" /\ file[2] = "*"
    /\ ClosingSlashes(file, 2) # {}

\* C14: the first advance on a file that begins with a block comment gives
\* the token that follows the first "*/" after the "/*", and has_more_tokens
\* sees the comment end at the same place.
C14_BlockCommentEnds ==
    [][(tokenizer.calls = <<>> /\ IsAdvance /\ StartsWithBlockComment(tokenizer.file))
        => LET i == Min(ClosingSlashes(tokenizer.file, 2))
               after == [tokenizer EXCEPT !.fp = i, !.pos = i]
               next == JackTokenizer_advance(after)
           IN  /\ tokenizer'.status = next.status
               /\ tokenizer'.cur_token = next.cur_token
               /\ (JackTokenizer_has_more_tokens(tokenizer).ret = "True")
                    <=> (tokenizer'.status = "ok")]_vars

\* the file begins with a block comment that is not closed
StartsUnterminatedComment(file) ==
    /\ Len(file) >= 2 /\ file[1] = "/" /\ file[2] = "*"
    /\ ClosingSlashes(file, 2) = {}

\* the file begins with a string constant that is not closed
StartsUnterminatedString(file) ==
    /\ Len(file) >= 1 /\ file[1] = Quote
    /\ Occurrences(file, 1, Quote) = {}

\* the call ended with an exception
Reported(t) == t.status \notin {"ok", "loop"}

\* C15: on an unterminated block comment has_more_tokens and advance, and on
\* an unterminated string constant advance, end with an error: they neither
\* run for ever nor return.
C15_UnterminatedReported ==
    [][(tokenizer.calls = <<>>
        /\ \/ StartsUnterminatedComment(tokenizer.file)
           \/ StartsUnterminatedString(tokenizer.file) /\ IsAdvance)
        => Reported(tokenizer')]_vars

\* the letters of the files
Letters == {"a", "b", "i", "f"}

AllIn(token, S) == \A i \in 1..Len(token) : token[i] \in S

\* the character that follows the current token in the file, '' at its end
FollowingChar(t) == Read1(t.file, t.pos)[1]

\* C16: a token that advance produces, other than a string constant, is one
\* symbol, or a maximal run of digits typed integerConstant, or a maximal
\* run of letters and digits that starts with a letter, typed keyword when
\* it is a reserved word and identifier otherwise.
C16_TokenClasses ==
    (tokenizer.status = "ok" /\ tokenizer.calls # <<>>
     /\ tokenizer.calls[Len(tokenizer.calls)] = "advance"
     /\ tokenizer.fp = tokenizer.pos
     /\ tokenizer.cur_token[1] # Quote)
        => LET token == tokenizer.cur_token
               type == JackTokenizer_token_type(token)
           IN  \/ Len(token) = 1 /\ token[1] \in SYMBOLS /\ type = "symbol"
               \/ /\ AllIn(token, Digits)
                  /\ FollowingChar(tokenizer) \notin Digits
                  /\ type = "integerConstant"
               \/ /\ token[1] \in Letters
                  /\ AllIn(token, Letters \cup Digits)
                  /\ FollowingChar(tokenizer) \notin Letters \cup Digits
                  /\ type = (IF TextOf(token) \in KEYWORDS THEN "keyword"
                             ELSE "identifier")

-----------------------------------------------------------------------------
(* src/VMtranslator.py.  Assembly text is a sequence of lines; a line is    *)
(*   <<"@", symbol>>            the A-instruction  @symbol                  *)
(*   <<"C", dest, comp, jump>>  the C-instruction  dest=comp;jump           *)
(*   <<"(", name>>              the label definition  (name)                *)
(*   <<"//", word, ...>>        a comment, up to the end of its line        *)
(*   <<>>                       an empty line                               *)
(* A comment that the code puts after an instruction follows it here.      *)

AInstr(sym) == <<"@", sym>>
CInstr(dest, comp, jump) == <<"C", dest, comp, jump>>
LabelDef(name) == <<"(", name>>
Comment(words) == <<"//">> \o words

\* lines 6-8
SEGMENTS == [s \in {"local", "argument", "this", "that", "temp"} |->
                IF s = "local" THEN "LCL"
                ELSE IF s = "argument" THEN "ARG"
                ELSE IF s = "this" THEN "THIS"
                ELSE IF s = "that" THEN "THAT"
                ELSE "5"]
POINTERS == [i \in {"0", "1"} |-> IF i = "0" THEN "THIS" ELSE "THAT"]

\* lines 9-12
PUSH_END == <<AInstr("SP"), CInstr("A", "M", ""), CInstr("M", "D", ""),
              AInstr("SP"), CInstr("M", "M+1", "")>>
POP_START == <<AInstr("SP"), CInstr("M", "M-1", "")>>
ARITH_START == <<AInstr("SP"), CInstr("AM", "M-1", "")>>
ARITH_END == <<AInstr("SP"), CInstr("M", "M+1", "")>>

\* class Counter, __init__
NewCounter ==
    [eqCounter |-> 0, aGTEGT |-> 0, calcGT |-> 0, gt |-> 0, endGT |-> 0,
     aGTELT |-> 0, calcLT |-> 0, lt |-> 0, endLT |-> 0]

CounterNames == {"eqCounter", "aGTEGT", "calcGT", "gt", "endGT",
                 "aGTELT", "calcLT", "lt", "endLT"}

\* parse_line on a line given as its pieces between spaces (an empty piece
\* where two spaces meet, "//" where a comment starts): the pieces before
\* the comment, the empty ones removed
RECURSIVE before_comment(_)
before_comment(cur_line) ==
    IF cur_line = <<>> \/ Head(cur_line) = "//" THEN <<>>
    ELSE <<Head(cur_line)>> \o before_comment(Tail(cur_line))

parse_line(cur_line) == SelectSeq(before_comment(cur_line), LAMBDA w : w # "")

\* one name for every file
get_name_of_no_file(file_name) == "Static"

\* a file name is [path |-> directories, stem |-> name without ".vm"]
\* get_name: the stem if the name holds a "/", else the name as it is
get_name(file_name) ==
    IF file_name.path # <<>> THEN file_name.stem ELSE file_name.stem \o ".vm"

\* prog.name[:-3] + OUT_SUFFIX, as the words of the header comment
RECURSIVE join_path(_)
join_path(path) ==
    IF path = <<>> THEN "" ELSE Head(path) \o "/" \o join_path(Tail(path))

out_header(file_name) == join_path(file_name.path) \o file_name.stem \o ".asm"

\* what translate_to_assembly gives back: text, None, or an exception
Text(lines, count) == [res |-> "text", text |-> lines, count |-> count]
Raised(what, count) == [res |-> what, text |-> <<>>, count |-> count]

\* lines 87-102
translate_push(command, cur_name, count) ==
    IF Len(command) < 3 THEN Raised("IndexError", count)
    ELSE LET comment == Comment(command)
             seg == command[2]
             idx == command[3]
         IN
         IF seg \in {"local", "argument", "this", "that"} THEN
             Text(<<AInstr(idx), CInstr("D", "A", ""), AInstr(SEGMENTS[seg]),
                    CInstr("A", "D+M", ""), CInstr("D", "M", "")>>
                  \o PUSH_END \o <<comment>>, count)
         ELSE IF seg = "constant" THEN
             Text(<<AInstr(idx), CInstr("D", "A", "")>>
                  \o PUSH_END \o <<comment>>, count)
         ELSE IF seg = "static" THEN
             Text(<<AInstr(cur_name \o "." \o idx), CInstr("D", "M", "")>>
                  \o PUSH_END \o <<comment>>, count)
         ELSE IF seg = "temp" THEN
             Text(<<AInstr(idx), CInstr("D", "A", ""), AInstr(SEGMENTS[seg]),
                    CInstr("A", "D+A", ""), CInstr("D", "M", "")>>
                  \o PUSH_END \o <<comment>>, count)
         ELSE IF idx \notin DOMAIN POINTERS THEN Raised("KeyError", count)
         ELSE Text(<<AInstr(POINTERS[idx]), CInstr("D", "M", "")>>
                   \o PUSH_END \o <<comment>>, count)

\* lines 104-121
translate_pop(command, cur_name, count) ==
    IF Len(command) < 3 THEN Raised("IndexError", count)
    ELSE LET comment == Comment(command)
             seg == command[2]
             idx == command[3]
             store == <<AInstr("R13"), CInstr("M", "D", ""), AInstr("SP"),
                        CInstr("A", "M", ""), CInstr("D", "M", ""),
                        AInstr("R13"), CInstr("A", "M", ""), CInstr("M", "D", "")>>
         IN
         IF seg \in {"local", "argument", "this", "that"} THEN
             Text(POP_START
                  \o <<AInstr(idx), CInstr("D", "A", ""), AInstr(SEGMENTS[seg]),
                       CInstr("D", "D+M", "")>> \o store \o <<comment>>, count)
         ELSE IF seg = "static" THEN
             Text(POP_START
                  \o <<CInstr("A", "M", ""), CInstr("D", "M", ""),
                       AInstr(cur_name \o "." \o idx), CInstr("M", "D", "")>>
                  \o <<comment>>, count)
         ELSE IF seg = "temp" THEN
             Text(POP_START
                  \o <<AInstr(idx), CInstr("D", "A", ""), AInstr(SEGMENTS[seg]),
                       CInstr("D", "D+A", "")>> \o store \o <<comment>>, count)
         ELSE IF idx \notin DOMAIN POINTERS THEN Raised("KeyError", count)
         ELSE Text(POP_START
                   \o <<CInstr("A", "M", ""), CInstr("D", "M", ""),
                        AInstr(POINTERS[idx]), CInstr("M", "D", "")>>
                   \o <<comment>>, count)

\* add, sub, and, or (lines 123-147): M=<comp> on the two topmost values
translate_binary(command, comp) ==
    ARITH_START \o <<CInstr("D", "M", ""), AInstr("SP"), CInstr("AM", "M-1", ""),
                     CInstr("M", comp, "")>>
                \o ARITH_END \o <<Comment(command)>>

\* neg, not (lines 133-136, 148-151)
translate_unary(command, comp) ==
    ARITH_START \o <<CInstr("M", comp, "")>> \o ARITH_END \o <<Comment(command)>>

eq_increment_none(count) == count

\* count.eqCounter += 1 (line 160)
eq_increment(count) == [count EXCEPT !.eqCounter = @ + 1]

\* the gt counters raised but for endGT
gt_increment_three(count) ==
    [count EXCEPT !.aGTEGT = @ + 1, !.calcGT = @ + 1, !.gt = @ + 1]

\* lines 176-179
gt_increment(count) ==
    [count EXCEPT !.aGTEGT = @ + 1, !.calcGT = @ + 1, !.gt = @ + 1, !.endGT = @ + 1]

\* lines 195-198
lt_increment(count) ==
    [count EXCEPT !.aGTELT = @ + 1, !.calcLT = @ + 1, !.lt = @ + 1, !.endLT = @ + 1]

\* lines 153-161
translate_eq(command, count) ==
    LET eq == "eq" \o ToString(count.eqCounter) IN
    Text(ARITH_START
         \o <<CInstr("D", "M", ""), AInstr("SP"), CInstr("AM", "M-1", ""),
              CInstr("D", "M-D", ""), CInstr("M", "-1", ""), AInstr(eq),
              CInstr("", "D", "JEQ"), AInstr("SP"), CInstr("A", "M", ""),
              CInstr("M", "0", ""), LabelDef(eq)>>
         \o ARITH_END \o <<Comment(command)>>,
         eq_increment(count))

\* the body shared by gt (lines 162-180) and lt (lines 181-199): the labels
\* a, calc, cmp, end, the jump of the last comparison, and the values stored
\* when the signs differ
translate_compare(command, a, calc, cmp, end, jump, x_nonneg, x_neg) ==
    ARITH_START
    \o <<CInstr("D", "M", ""), AInstr("R13"), CInstr("M", "D", ""),
         AInstr("SP"), CInstr("AM", "M-1", ""), CInstr("D", "M", ""),
         AInstr(a), CInstr("", "D", "JGE"),
         AInstr("R13"), CInstr("D", "M", ""),
         AInstr(calc), CInstr("", "D", "JLT"),
         AInstr("SP"), CInstr("A", "M", ""), CInstr("M", x_neg, ""),
         AInstr(end), CInstr("", "0", "JMP"),
         LabelDef(a),
         AInstr("R13"), CInstr("D", "M", ""),
         AInstr(calc), CInstr("", "D", "JGE"),
         AInstr("SP"), CInstr("A", "M", ""), CInstr("M", x_nonneg, ""),
         AInstr(end), CInstr("", "0", "JMP"),
         LabelDef(calc),
         AInstr("SP"), CInstr("A", "M", ""), CInstr("D", "M-D", ""),
         AInstr(cmp), CInstr("", "D", jump),
         AInstr("SP"), CInstr("A", "M", ""), CInstr("M", "0", ""),
         AInstr(end), CInstr("", "0", "JMP"),
         LabelDef(cmp),
         AInstr("SP"), CInstr("A", "M", ""), CInstr("M", "-1", ""),
         LabelDef(end)>>
    \o ARITH_END \o <<Comment(command)>>

\* gt with the answers of the two sign cases exchanged
translate_gt_signs_exchanged(command, count) ==
    Text(translate_compare(command,
                           "aGTEGT" \o ToString(count.aGTEGT),
                           "CALCGT" \o ToString(count.calcGT),
                           "GT" \o ToString(count.gt),
                           "ENDGT" \o ToString(count.endGT),
                           "JGT", "0", "-1"),
         gt_increment(count))

\* lines 162-180
translate_gt(command, count) ==
    Text(translate_compare(command,
                           "aGTEGT" \o ToString(count.aGTEGT),
                           "CALCGT" \o ToString(count.calcGT),
                           "GT" \o ToString(count.gt),
                           "ENDGT" \o ToString(count.endGT),
                           "JGT", "-1", "0"),
         gt_increment(count))

\* lines 181-199
translate_lt(command, count) ==
    Text(translate_compare(command,
                           "aGTELT" \o ToString(count.aGTELT),
                           "CALCLT" \o ToString(count.calcLT),
                           "LT" \o ToString(count.lt),
                           "ENDLT" \o ToString(count.endLT),
                           "JLT", "0", "-1"),
         lt_increment(count))

\* translate_to_assembly: a command no branch handles falls off the end of
\* the function, which gives None
translate_to_assembly(command, cur_name, count) ==
    IF Len(command) = 0 THEN Text(<<>>, count)
    ELSE IF command[1] = "push" THEN translate_push(command, cur_name, count)
    ELSE IF command[1] = "pop" THEN translate_pop(command, cur_name, count)
    ELSE IF command[1] = "add" THEN Text(translate_binary(command, "D+M"), count)
    ELSE IF command[1] = "sub" THEN Text(translate_binary(command, "M-D"), count)
    ELSE IF command[1] = "neg" THEN Text(translate_unary(command, "-M"), count)
    ELSE IF command[1] = "and" THEN Text(translate_binary(command, "D&M"), count)
    ELSE IF command[1] = "or" THEN Text(translate_binary(command, "D|M"), count)
    ELSE IF command[1] = "not" THEN Text(translate_unary(command, "!M"), count)
    ELSE IF command[1] = "eq" THEN translate_eq(command, count)
    ELSE IF command[1] = "gt" THEN translate_gt(command, count)
    ELSE IF command[1] = "lt" THEN translate_lt(command, count)
    ELSE Raised(None, count)

-----------------------------------------------------------------------------
(* The target machine, on which the emitted assembly runs: 16-bit words,    *)
(* registers A and D, a data memory addressed by A, a program counter.     *)
(* Symbols are resolved as its assembler does: the predefined names, then  *)
(* the labels of the text, then variables from address 16 upwards in the   *)
(* order they first appear.                                                *)

Wrap(n) == n % 65536
Signed(w) == IF w >= 32768 THEN w - 65536 ELSE w

PredefinedSymbols ==
    [s \in {"SP", "LCL", "ARG", "THIS", "THAT", "R13", "R14", "R15"} |->
        IF s = "SP" THEN 0
        ELSE IF s = "LCL" THEN 1
        ELSE IF s = "ARG" THEN 2
        ELSE IF s = "THIS" THEN 3
        ELSE IF s = "THAT" THEN 4
        ELSE IF s = "R13" THEN 13
        ELSE IF s = "R14" THEN 14
        ELSE 15]

NumberTexts == {ToString(n) : n \in 0..MaxConstant}
NumberOf(sym) == CHOOSE n \in 0..MaxConstant : ToString(n) = sym

IsInstruction(l) == Len(l) > 0 /\ l[1] \in {"@", "C"}
IsLabelDef(l) == Len(l) > 0 /\ l[1] = "("

\* the instructions of a text, in order: what is loaded into program memory
Instructions(asm) == SelectSeq(asm, IsInstruction)

\* the label definitions of a text, in order
LabelDefs(asm) == SelectSeq(asm, IsLabelDef)

LabelsOf(asm) == {LabelDefs(asm)[i][2] : i \in 1..Len(LabelDefs(asm))}

\* the address of the instruction that follows the (first) definition of name
RECURSIVE LabelAddress(_, _, _)
LabelAddress(asm, name, n) ==
    IF asm = <<>> THEN n
    ELSE IF Head(asm) = LabelDef(name) THEN n
    ELSE LabelAddress(Tail(asm), name, IF IsInstruction(Head(asm)) THEN n + 1 ELSE n)

\* the variables of a text, in the order of their first appearance
RECURSIVE VariablesOf(_, _, _)
VariablesOf(asm, labels, seen) ==
    IF asm = <<>> THEN seen
    ELSE LET l == Head(asm)
             new == /\ Len(l) > 0 /\ l[1] = "@"
                    /\ l[2] \notin DOMAIN PredefinedSymbols
                    /\ l[2] \notin NumberTexts
                    /\ l[2] \notin labels
                    /\ \A i \in 1..Len(seen) : seen[i] # l[2]
         IN  VariablesOf(Tail(asm), labels, IF new THEN Append(seen, l[2]) ELSE seen)

\* the value the assembler puts for @sym
Resolve(asm, sym) ==
    IF sym \in DOMAIN PredefinedSymbols THEN PredefinedSymbols[sym]
    ELSE IF sym \in NumberTexts THEN NumberOf(sym)
    ELSE IF sym \in LabelsOf(asm) THEN LabelAddress(asm, sym, 0)
    ELSE LET vs == VariablesOf(asm, LabelsOf(asm), <<>>)
         IN  15 + (CHOOSE i \in 1..Len(vs) : vs[i] = sym)

\* bitwise and / or of two words, bit by bit
RECURSIVE BitAnd(_, _, _)
BitAnd(x, y, bits) ==
    IF bits = 0 THEN 0
    ELSE (x % 2) * (y % 2) + 2 * BitAnd(x \div 2, y \div 2, bits - 1)

RECURSIVE BitOr(_, _, _)
BitOr(x, y, bits) ==
    IF bits = 0 THEN 0
    ELSE (IF x % 2 = 1 \/ y % 2 = 1 THEN 1 ELSE 0)
         + 2 * BitOr(x \div 2, y \div 2, bits - 1)

\* the ALU: the value of comp with registers a, d and memory word m
Comp(comp, a, d, m) ==
    CASE comp = "0" -> 0
      [] comp = "1" -> 1
      [] comp = "-1" -> Wrap(-1)
      [] comp = "D" -> d
      [] comp = "A" -> a
      [] comp = "M" -> m
      [] comp = "!D" -> 65535 - d
      [] comp = "!A" -> 65535 - a
      [] comp = "!M" -> 65535 - m
      [] comp = "-D" -> Wrap(-d)
      [] comp = "-A" -> Wrap(-a)
      [] comp = "-M" -> Wrap(-m)
      [] comp = "D+1" -> Wrap(d + 1)
      [] comp = "A+1" -> Wrap(a + 1)
      [] comp = "M+1" -> Wrap(m + 1)
      [] comp = "D-1" -> Wrap(d - 1)
      [] comp = "A-1" -> Wrap(a - 1)
      [] comp = "M-1" -> Wrap(m - 1)
      [] comp = "D+A" -> Wrap(d + a)
      [] comp = "D+M" -> Wrap(d + m)
      [] comp = "D-A" -> Wrap(d - a)
      [] comp = "D-M" -> Wrap(d - m)
      [] comp = "A-D" -> Wrap(a - d)
      [] comp = "M-D" -> Wrap(m - d)
      [] comp = "D&A" -> BitAnd(d, a, 16)
      [] comp = "D&M" -> BitAnd(d, m, 16)
      [] comp = "D|A" -> BitOr(d, a, 16)
      [] comp = "D|M" -> BitOr(d, m, 16)

\* the registers a dest field names
Dest(dest) ==
    CASE dest = "" -> {}
      [] dest = "M" -> {"M"}
      [] dest = "D" -> {"D"}
      [] dest = "A" -> {"A"}
      [] dest = "MD" -> {"M", "D"}
      [] dest = "AM" -> {"A", "M"}
      [] dest = "AD" -> {"A", "D"}
      [] dest = "AMD" -> {"A", "M", "D"}

\* whether a jump field jumps on the computed word v
Jumps(jump, v) ==
    CASE jump = "" -> FALSE
      [] jump = "JGT" -> Signed(v) > 0
      [] jump = "JEQ" -> v = 0
      [] jump = "JGE" -> Signed(v) >= 0
      [] jump = "JLT" -> Signed(v) < 0
      [] jump = "JNE" -> v # 0
      [] jump = "JLE" -> Signed(v) <= 0
      [] jump = "JMP" -> TRUE

ReadRAM(ram, addr) == IF addr \in DOMAIN ram THEN ram[addr] ELSE 0
WriteRAM(ram, addr, v) ==
    [x \in (DOMAIN ram) \cup {addr} |-> IF x = addr THEN v ELSE ram[x]]

\* the machine before the first instruction; the stack pointer holds the
\* base of the stack
Machine(sp) == [A |-> 0, D |-> 0, PC |-> 0, RAM |-> WriteRAM(<<>>, 0, sp)]

\* one instruction
Step(m, asm, ins) ==
    IF ins[1] = "@"
    THEN [m EXCEPT !.A = Resolve(asm, ins[2]), !.PC = m.PC + 1]
    ELSE LET v == Comp(ins[3], m.A, m.D, ReadRAM(m.RAM, m.A))
             to == Dest(ins[2])
         IN  [A |-> IF "A" \in to THEN v ELSE m.A,
              D |-> IF "D" \in to THEN v ELSE m.D,
              RAM |-> IF "M" \in to THEN WriteRAM(m.RAM, m.A, v) ELSE m.RAM,
              PC |-> IF Jumps(ins[4], v) THEN m.A ELSE m.PC + 1]

\* runs until the program counter leaves the text, for at most steps instructions
RECURSIVE Run(_, _, _)
Run(m, asm, steps) ==
    LET rom == Instructions(asm) IN
    IF steps = 0 \/ m.PC >= Len(rom) THEN m
    ELSE Run(Step(m, asm, rom[m.PC + 1]), asm, steps - 1)

Halted(m, asm) == m.PC >= Len(Instructions(asm))
StackPointer(m) == ReadRAM(m.RAM, 0)
StackTop(m) == ReadRAM(m.RAM, StackPointer(m) - 1)

-----------------------------------------------------------------------------
(* SpecVM: one run of src/VMtranslator.py's main loop (lines 202-220).  The *)
(* lines of each file are chosen as they are read.  vm.src keeps, per unit, *)
(* the commands handed to translate_to_assembly so far.                    *)

\* names of the input files: a single file in the working directory, or the
\* .vm files of a directory
SingleFile == [path |-> <<>>, stem |-> "t"]
DirFiles == <<[path |-> <<"prog">>, stem |-> "A"],
              [path |-> <<"prog">>, stem |-> "B"],
              [path |-> <<"prog">>, stem |-> "C"]>>

\* create_prog_list: the one file named, or the first files of the directory
ProgLists == {<<SingleFile>>} \cup {SubSeq(DirFiles, 1, n) : n \in 0..MaxUnits}

\* the lines the input files are made of, as parse_line sees them
VMLines == {<<>>,
            <<"push", "constant", "7">>,
            <<"push", "constant", "8">>,
            <<"add">>,
            <<"eq">>,
            <<"gt", "//", "x>y">>,
            <<"", "lt">>,
            <<"return">>}

RECURSIVE SumLen(_)
SumLen(seqs) == IF seqs = <<>> THEN 0 ELSE Len(Head(seqs)) + SumLen(Tail(seqs))

\* lines 203-210: the output file is open, counter = Counter()
VM_Init ==
    /\ vm \in {[status |-> "run", progs |-> pl, unit |-> 0, in_unit |-> FALSE,
                src |-> <<>>, count |-> NewCounter, out |-> <<>>, error |-> ""]
               : pl \in ProgLists}
    /\ st = NewSymbolTable /\ log = <<>>
    /\ prog = IdleProg /\ eng = IdleEngine /\ phase = "idle" /\ tokenizer = IdleTok

\* line 211-212: the next prog of the loop, its header written
VM_Open ==
    /\ vm.status = "run" /\ ~vm.in_unit /\ vm.unit < Len(vm.progs)
    /\ vm' = [vm EXCEPT !.unit = @ + 1, !.in_unit = TRUE,
                        !.src = Append(@, <<>>),
                        !.out = Append(@, Comment(<<out_header(vm.progs[vm.unit + 1])>>))]
    /\ UNCHANGED <<st, log, prog, eng, phase, tokenizer>>

\* lines 213-216: one line of the current prog; out_file.write(None) raises
\* TypeError, and so ends the run, as an exception inside the call does
VM_Line(line) ==
    /\ vm.status = "run" /\ vm.in_unit /\ SumLen(vm.src) < MaxLines
    /\ LET command == parse_line(line)
           r == translate_to_assembly(command, get_name(vm.progs[vm.unit]), vm.count)
           src1 == [vm.src EXCEPT ![vm.unit] = Append(@, command)]
       IN  IF r.res = "text"
           THEN vm' = [vm EXCEPT !.src = src1, !.count = r.count,
                                 !.out = @ \o r.text]
           ELSE vm' = [vm EXCEPT !.src = src1, !.count = r.count,
                                 !.status = "crash",
                                 !.error = IF r.res = None THEN "TypeError" ELSE r.res]
    /\ UNCHANGED <<st, log, prog, eng, phase, tokenizer>>

\* lines 217-218: the end of the current prog
VM_EndUnit ==
    /\ vm.status = "run" /\ vm.in_unit
    /\ vm' = [vm EXCEPT !.in_unit = FALSE, !.out = Append(@, <<>>)]
    /\ UNCHANGED <<st, log, prog, eng, phase, tokenizer>>

\* line 220
VM_Close ==
    /\ vm.status = "run" /\ ~vm.in_unit /\ vm.unit = Len(vm.progs)
    /\ vm' = [vm EXCEPT !.status = "closed"]
    /\ UNCHANGED <<st, log, prog, eng, phase, tokenizer>>

VM_Next ==
    \/ VM_Open
    \/ \E line \in VMLines : VM_Line(line)
    \/ VM_EndUnit
    \/ VM_Close

SpecVM == VM_Init /\ [][VM_Next]_vars

-----------------------------------------------------------------------------
(* Claims about the machine translator *)

\* the names defined by (NAME) lines of the combined output, in order
DefinedLabels ==
    LET defs == LabelDefs(vm.out) IN [i \in 1..Len(defs) |-> defs[i][2]]

\* no counter goes down in a step, and none changes where a unit begins or ends
CountersCarryOver ==
    /\ \A c \in CounterNames : vm'.count[c] >= vm.count[c]
    /\ (vm'.unit # vm.unit \/ vm'.in_unit # vm.in_unit) => vm'.count = vm.count

\* C4: in one run of the translator no label definition (NAME) appears twice
\* in the combined output, whatever the units and the instructions, and the
\* counters carry over from one unit to the next.
C4_UniqueSynthesizedLabels ==
    /\ [](vm.status # "idle" => NoDuplicates(DefinedLabels))
    /\ [][vm.status # "idle" => CountersCarryOver]_vars

\* two units, an eq in each, a gt in the first and an lt in the second
C4_Witness ==
    /\ vm.status = "closed"
    /\ vm.src = << << <<"eq">>, <<"gt">> >>, << <<"eq">>, <<"lt">> >> >>
    /\ Len(DefinedLabels) = 10
    /\ vm.count.eqCounter = 2 /\ vm.count.gt = 1 /\ vm.count.lt = 1

\* the instruction sequence of the round trip
RoundTripCommands ==
    << <<"push", "constant", "7">>, <<"push", "constant", "8">>, <<"add">>,
       <<"return">> >>

\* the machine after the output so far has run, the stack based at 256
AfterRun == Run(Machine(256), vm.out, MaxSteps)

\* C7: once push constant 7, push constant 8, add, return have been handed to
\* translate_to_assembly, each has given assembly text, and running the text
\* leaves 15 on top of the stack.
C7_RoundTrip ==
    (vm.status # "idle" /\ vm.src = <<RoundTripCommands>>)
        => /\ vm.status # "crash"
           /\ Halted(AfterRun, vm.out)
           /\ StackTop(AfterRun) = 15

\* without the return: push constant 7, push constant 8, add leave 15 on top
\* of a stack one word high
SumOnStack ==
    (vm.status # "idle" /\ vm.src = <<SubSeq(RoundTripCommands, 1, 3)>>)
        => /\ vm.status # "crash"
           /\ Halted(AfterRun, vm.out)
           /\ StackTop(AfterRun) = 15
           /\ StackPointer(AfterRun) = 257

SumOnStackWitness ==
    /\ vm.status = "closed" /\ vm.src = <<SubSeq(RoundTripCommands, 1, 3)>>
    /\ StackTop(AfterRun) = 15

-----------------------------------------------------------------------------
(* C19: the instruction kinds of the main loop *)

\* the instruction kinds the compiler's VMWriter emits
InstructionKinds ==
    {"push", "pop", "add", "sub", "neg", "eq", "gt", "lt", "and", "or", "not",
     "label", "goto", "if-goto", "call", "function", "return"}

\* the command handed to translate_to_assembly last
LastCommand == vm.src[vm.unit][Len(vm.src[vm.unit])]

\* C19: translate_to_assembly gives text for every instruction kind the
\* compiler emits, so a run stops only on a command of another kind, and then
\* with an error of the translator's and not with a value (None) handed to
\* out_file.write.
C19_EveryKindTranslated ==
    vm.status = "crash"
        => /\ LastCommand[1] \notin InstructionKinds
           /\ vm.error # "TypeError"

-----------------------------------------------------------------------------
(* SpecCmp: the text translate_to_assembly gives for one eq, gt or lt runs   *)
(* on the target machine, instruction by instruction, with x and y on the   *)
(* stack.                                                                  *)

\* the operands: the words within MaxOffset of 0 and of the sign change
Operands ==
    {Wrap(base + d) : base \in {0, 32768}, d \in (0 - MaxOffset)..MaxOffset}

\* the counters at the start of a file and after earlier comparisons
CmpCounters == {NewCounter, gt_increment(lt_increment(eq_increment(NewCounter)))}

\* the machine with x pushed first and y pushed second on a stack based at base
StackOf(base, x, y) ==
    [Machine(base + 2) EXCEPT
        !.RAM = WriteRAM(WriteRAM(@, base, x), base + 1, y)]

Cmp_Init ==
    /\ vm \in {[status |-> "start", op |-> op, x |-> x, y |-> y, count |-> c,
                out |-> <<>>, m |-> StackOf(256, x, y)]
               : op \in {"eq", "gt", "lt"}, x \in Operands, y \in Operands,
                 c \in CmpCounters}
    /\ st = NewSymbolTable /\ log = <<>> /\ tokenizer = IdleTok
    /\ prog = IdleProg /\ eng = IdleEngine /\ phase = "idle"

\* lines 213-216 for the one line of the file
Cmp_Translate ==
    /\ vm.status = "start"
    /\ LET r == translate_to_assembly(parse_line(<<vm.op>>), "t", vm.count)
       IN  vm' = [vm EXCEPT !.status = "run", !.out = r.text, !.count = r.count]
    /\ UNCHANGED <<st, log, prog, eng, phase, tokenizer>>

\* the machine executes the instruction at its program counter
Cmp_Step ==
    /\ vm.status = "run" /\ ~Halted(vm.m, vm.out)
    /\ vm' = [vm EXCEPT !.m = Step(@, vm.out, Instructions(vm.out)[vm.m.PC + 1])]
    /\ UNCHANGED <<st, log, prog, eng, phase, tokenizer>>

Cmp_Next == Cmp_Translate \/ Cmp_Step

SpecCmp == Cmp_Init /\ [][Cmp_Next]_vars

\* the word a comparison leaves: -1 for true, 0 for false, on signed words
Expected(op, x, y) ==
    IF \/ op = "eq" /\ x = y
       \/ op = "gt" /\ Signed(x) > Signed(y)
       \/ op = "lt" /\ Signed(x) < Signed(y)
    THEN Wrap(-1) ELSE 0

CmpDone == vm.status = "run" /\ Halted(vm.m, vm.out)

\* C20: when the text of eq, gt or lt has run with x below y on the stack,
\* the two words are replaced by -1 if the comparison of the signed words
\* holds and by 0 otherwise, also when x - y overflows, and the stack
\* pointer is one lower than before.
C20_SignedComparison ==
    CmpDone
        => /\ StackPointer(vm.m) = 257
           /\ StackTop(vm.m) = Expected(vm.op, vm.x, vm.y)

\* gt on the largest positive and the smallest negative word: x - y
\* overflows to a negative word, and the answer is true
C20_Witness ==
    /\ CmpDone
    /\ vm.op = "gt" /\ Signed(vm.x) = 32767 /\ Signed(vm.y) = 0 - 32768
    /\ Signed(Wrap(vm.x - vm.y)) < 0
    /\ StackTop(vm.m) = Wrap(-1) /\ StackPointer(vm.m) = 257

-----------------------------------------------------------------------------
(* SpecStatic: runs of the translator's main loop on files that use the    *)
(* static segment.                                                         *)

\* the lines of the files
StaticLines == {<<"push", "static", "0">>, <<"pop", "static", "0">>,
                <<"push", "static", "1">>, <<"pop", "static", "1">>,
                <<"push", "constant", "7">>}

Static_Next ==
    \/ VM_Open
    \/ \E line \in StaticLines : VM_Line(line)
    \/ VM_EndUnit
    \/ VM_Close

SpecStatic == VM_Init /\ [][Static_Next]_vars

\* the uses of the static segment in an output text, from line i on: the
\* set of <<unit, index, symbol>>, the unit counted by the header comments,
\* the index read from the comment that ends the text of a command, the
\* symbol the last @ of that text other than @SP and @R13
RECURSIVE StaticUses(_, _, _, _)
StaticUses(out, i, unit, sym) ==
    IF i > Len(out) THEN {}
    ELSE LET l == out[i] IN
         IF Len(l) = 2 /\ l[1] = "//" THEN StaticUses(out, i + 1, unit + 1, "")
         ELSE IF Len(l) = 2 /\ l[1] = "@" /\ l[2] \notin {"SP", "R13"}
              THEN StaticUses(out, i + 1, unit, l[2])
         ELSE IF Len(l) = 4 /\ l[1] = "//" /\ l[3] = "static"
              THEN {<<unit, l[4], sym>>} \cup StaticUses(out, i + 1, unit, "")
         ELSE StaticUses(out, i + 1, unit, sym)

\* C21: in the output of one run two uses of the static segment, push or
\* pop, have the same symbol exactly when they are in the same unit and have
\* the same index.
C21_StaticSymbols ==
    vm.status # "idle"
        => \A u1, u2 \in StaticUses(vm.out, 1, 0, "") :
              (u1[3] = u2[3]) <=> (u1[1] = u2[1] /\ u1[2] = u2[2])

\* two units, each pushes and pops its static 0: two symbols
C21_Witness ==
    /\ vm.status = "closed"
    /\ vm.src = << << <<"push", "static", "0">>, <<"pop", "static", "0">> >>,
                   << <<"push", "static", "0">>, <<"pop", "static", "0">> >> >>
    /\ StaticUses(vm.out, 1, 0, "") = {<<1, "0", "A.0">>, <<2, "0", "B.0">>}

-----------------------------------------------------------------------------
(* C29: the counters *)

GTCounters == {"aGTEGT", "calcGT", "gt", "endGT"}
LTCounters == {"aGTELT", "calcLT", "lt", "endLT"}

\* the counters after a command of a kind
CountersAfter(count, kind) ==
    [c \in CounterNames |->
        IF \/ kind = "eq" /\ c = "eqCounter"
           \/ kind = "gt" /\ c \in GTCounters
           \/ kind = "lt" /\ c \in LTCounters
        THEN count[c] + 1 ELSE count[c]]

\* the step hands a line to translate_to_assembly
IsLineStep == Len(vm'.src) = Len(vm.src) /\ vm'.src # vm.src

\* the kind of the command handed over in the step, "" for an empty line
KindOfStep ==
    LET cmd == vm'.src[vm'.unit][Len(vm'.src[vm'.unit])] IN
    IF cmd = <<>> THEN "" ELSE cmd[1]

\* C29: an eq raises the eq counter alone by 1, a gt the four gt counters
\* and an lt the four lt counters by 1 each, every other line and every step
\* that is not a line leaves the nine counters as they are; the four gt
\* counters are equal in every state, and so are the four lt counters.
C29_CounterFrame ==
    /\ [][vm.status = "run"
            => vm'.count = IF IsLineStep THEN CountersAfter(vm.count, KindOfStep)
                           ELSE vm.count]_vars
    /\ [](vm.status # "idle"
            => /\ \A c, d \in GTCounters : vm.count[c] = vm.count[d]
               /\ \A c, d \in LTCounters : vm.count[c] = vm.count[d])

\* a push, an eq, a gt and an lt: each counter stands at 1
C29_Witness ==
    /\ vm.status = "run"
    /\ vm.src = << << <<"push", "constant", "7">>, <<"eq">>, <<"gt">>, <<"lt">> >> >>
    /\ \A c \in CounterNames : vm.count[c] = 1

-----------------------------------------------------------------------------
(* C30: advance at the end of the file *)

\* C30: advance returns whenever a token remains and neither a string
\* constant nor a block comment is in the file, also when the file ends
\* right after the last token, and
\* leaves the file at the recorded position.
C30_AdvanceTerminates ==
    [][(tokenizer.status = "ok" /\ tokenizer.fp = tokenizer.pos /\ IsAdvance
        /\ Remaining(tokenizer.file, tokenizer.pos) = "content"
        /\ Occurrences(tokenizer.file, 0, Quote) = {}
        /\ Occurrences(tokenizer.file, 0, "*") = {})
        => /\ tokenizer'.status = "ok"
           /\ tokenizer'.fp = tokenizer'.pos]_vars

-----------------------------------------------------------------------------
(* SpecRun: JackCompiler.__init__ over the .jack files of a directory.     *)
(* prog is the run: the token streams of the files, which input and output *)
(* files are open, the number of files the loop has begun (idx) and the    *)
(* number of inputs the last loop has closed (closed).                     *)

\* the files: one with no token, two classes, one that ends after its name
UnitChoices ==
    {<<>>,
     ClassTokens(GetterClass),
     ClassTokens([name |-> "Main", cvars |-> <<>>, subs |-> <<>>]),
     <<"class", "Main">>}

UnitLists == UNION {[1..n -> UnitChoices] : n \in 0..MaxFiles}

AllFiles(run, open) == [i \in 1..Len(run.units) |-> open]

\* JackCompiler.__init__, lines 899-900
Run_Init ==
    /\ prog \in {[units |-> us, in_open |-> [i \in 1..Len(us) |-> FALSE],
                  out_open |-> [i \in 1..Len(us) |-> FALSE],
                  idx |-> 0, closed |-> 0] : us \in UnitLists}
    /\ phase = "new" /\ eng = IdleEngine
    /\ st = NewSymbolTable /\ log = <<>> /\ vm = IdleVM /\ tokenizer = IdleTok

\* __create_progs_lists, lines 919-923: every input and every output is opened
Run_CreateProgsLists ==
    /\ phase = "new"
    /\ prog' = [prog EXCEPT !.in_open = AllFiles(prog, TRUE),
                            !.out_open = AllFiles(prog, TRUE)]
    /\ phase' = "loop"
    /\ UNCHANGED <<st, log, eng, vm, tokenizer>>

\* lines 903-906: the tokenizer, the writer and the engine of the next file
Run_BeginUnit ==
    /\ phase = "loop" /\ prog.idx < Len(prog.units)
    /\ prog' = [prog EXCEPT !.idx = @ + 1]
    /\ eng' = NewEngine(prog.units[prog.idx + 1])
    /\ phase' = "unit"
    /\ UNCHANGED <<st, log, vm, tokenizer>>

\* lines 907-909; compile_class closes the output file at its end (line 419)
Run_CompileUnit ==
    /\ phase = "unit"
    /\ IF has_more_tokens(eng)
       THEN LET e == compile_class(advance(eng)) IN
            /\ eng' = e
            /\ prog' = [prog EXCEPT !.out_open[prog.idx] = ~e.closed]
            /\ phase' = After(e, "loop")
       ELSE /\ UNCHANGED <<eng, prog>>
            /\ phase' = "loop"
    /\ UNCHANGED <<st, log, vm, tokenizer>>

\* lines 911-912: the input files are closed one after the other
Run_CloseInput ==
    /\ phase \in {"loop", "closing"} /\ prog.idx = Len(prog.units)
    /\ prog.closed < Len(prog.units)
    /\ prog' = [prog EXCEPT !.closed = @ + 1, !.in_open[prog.closed + 1] = FALSE]
    /\ phase' = "closing"
    /\ UNCHANGED <<st, log, eng, vm, tokenizer>>

\* __init__ returns
Run_Return ==
    /\ phase \in {"loop", "closing"} /\ prog.idx = Len(prog.units)
    /\ prog.closed = Len(prog.units)
    /\ phase' = "finished"
    /\ UNCHANGED <<st, log, prog, eng, vm, tokenizer>>

Run_Next ==
    \/ Run_CreateProgsLists
    \/ Run_BeginUnit
    \/ Run_CompileUnit
    \/ Run_CloseInput
    \/ Run_Return

SpecRun == Run_Init /\ [][Run_Next]_vars

\* file i is the one being processed: the last one the loop has begun, or
\* the one it begins next
InProcess(i) == prog.idx = i \/ (prog.idx = i - 1 /\ phase = "loop")

\* C22: the input and the output file of a unit are open only while the
\* unit is processed, and when the run has ended every file is closed, those
\* of a unit with no tokens too.
C22_StreamsScoped ==
    /\ \A i \in 1..Len(prog.units) :
          (prog.in_open[i] \/ prog.out_open[i]) => InProcess(i)
    /\ phase = "finished" =>
          \A i \in 1..Len(prog.units) : ~prog.in_open[i] /\ ~prog.out_open[i]

-----------------------------------------------------------------------------
(* SpecBody: compile_statements applied to one while, return, do or let    *)
(* statement inside a subroutine body, the engine as in SpecStmt: class    *)
(* Main with fields x (int), y (Main) and static s, subroutine f with      *)
(* arguments a (int), b (Main) and locals v (int), w (Main).  The name z   *)
(* is bound in neither table.                                              *)

\* t1 op1 t2 op2 ... as tokens
RECURSIVE Interleave(_, _)
Interleave(terms, ops) ==
    IF Len(terms) <= 1 THEN terms
    ELSE <<Head(terms), Head(ops)>> \o Interleave(Tail(terms), Tail(ops))

ChainTerms == {"a", "1", "x"}
ChainOps == {"+", "*", "/", "<"}

WhileInputs ==
    {[kind |-> "while", cond |-> c, body |-> b, start |-> n] :
        c \in Conditions, b \in Blocks, n \in LabelStarts}

ReturnInputs ==
    {[kind |-> "return", terms |-> ts, ops |-> os] :
        ts \in {<<>>, <<"z">>}, os \in {<<>>}}
    \cup UNION {{[kind |-> "return", terms |-> ts, ops |-> os] :
                    ts \in [1..n -> ChainTerms], os \in [1..(n - 1) -> ChainOps]}
                : n \in 1..MaxChain}

\* what is called: a subroutine of the class, a method on a variable, a
\* function of another class
Callees == {<<"run">>, <<"w", ".", "m">>, <<"y", ".", "m">>, <<"a", ".", "m">>,
            <<"Math", ".", "f">>}
Args == {<<"a">>, <<"1", "+", "v">>, <<"z">>}

CallInputs ==
    {[kind |-> "do", callee |-> c, args |-> as] :
        c \in Callees, as \in UNION {[1..n -> Args] : n \in 0..MaxArgs}}

\* index <<>> stands for a let without an index
LetInputs ==
    {[kind |-> "let", target |-> t, index |-> i, expr |-> x] :
        t \in {"v", "a", "x", "s", "z"},
        i \in {<<>>, <<"0">>, <<"a">>},
        x \in {<<"1">>, <<"v", "[", "0", "]">>, <<"a", "+", "1">>}}

BodyInputs == WhileInputs \cup ReturnInputs \cup CallInputs \cup LetInputs

\* e1 , e2 , ... as tokens
RECURSIVE ArgTokens(_)
ArgTokens(as) ==
    IF as = <<>> THEN <<>>
    ELSE IF Len(as) = 1 THEN Head(as)
    ELSE Head(as) \o <<",">> \o ArgTokens(Tail(as))

\* the tokens of the statement of input p
BodyTokens(p) ==
    IF p.kind = "while" THEN
        <<"while", "(">> \o p.cond \o <<")", "{">> \o p.body \o <<"}">>
    ELSE IF p.kind = "return" THEN
        <<"return">> \o Interleave(p.terms, p.ops) \o <<";">>
    ELSE IF p.kind = "do" THEN
        <<"do">> \o p.callee \o <<"(">> \o ArgTokens(p.args) \o <<")", ";">>
    ELSE <<"let", p.target>>
         \o (IF p.index = <<>> THEN <<>> ELSE <<"[">> \o p.index \o <<"]">>)
         \o <<"=">> \o p.expr \o <<";">>

\* the label counters before the statement
StartOf(p) == IF p.kind = "while" THEN p.start ELSE 0

Body_Init ==
    /\ prog \in BodyInputs
    /\ eng = EngineAt(BodyTokens(prog) \o <<"}">>, StartOf(prog), StartOf(prog))
    /\ phase = "ready"
    /\ st = NewSymbolTable /\ log = <<>> /\ vm = IdleVM /\ tokenizer = IdleTok

Body_Next == Stmt_Compile

SpecBody == Body_Init /\ [][Body_Next]_vars

\* the statement uses the name bound in neither table
UsesUnbound(p) == \E i \in 1..Len(BodyTokens(p)) : BodyTokens(p)[i] = "z"

\* the push of each bound name, by the tables of the engine
PushOf ==
    [n \in {"a", "b", "v", "w", "x", "y", "s"} |->
        IF n = "a" THEN <<"push", "argument", "0">>
        ELSE IF n = "b" THEN <<"push", "argument", "1">>
        ELSE IF n = "v" THEN <<"push", "local", "0">>
        ELSE IF n = "w" THEN <<"push", "local", "1">>
        ELSE IF n = "x" THEN <<"push", "this", "0">>
        ELSE IF n = "y" THEN <<"push", "this", "1">>
        ELSE <<"push", "static", "0">>]

\* the declared type of each bound name
TypeOf ==
    [n \in {"a", "b", "v", "w", "x", "y", "s"} |->
        IF n \in {"b", "w", "y"} THEN "Main" ELSE "int"]

\* the code of a term of a chain
TermCode(t) == IF t = "1" THEN <<"push", "constant", "1">> ELSE PushOf[t]

\* the instruction of an operator of a chain
OpCode(op) ==
    IF op = "+" THEN <<"add">>
    ELSE IF op = "*" THEN <<"call", "Math.multiply", "2">>
    ELSE IF op = "/" THEN <<"call", "Math.divide", "2">>
    ELSE <<"lt">>

\* what an instruction adds to the height of the stack
Effect(line) ==
    IF line[1] = "push" THEN 1
    ELSE IF line[1] = "pop" THEN 0 - 1
    ELSE IF line[1] \in {"add", "sub", "and", "or", "lt", "gt", "eq"} THEN 0 - 1
    ELSE IF line[1] = "call"
         THEN 1 - (CHOOSE n \in 0..(MaxArgs + 2) : ToString(n) = line[3])
    ELSE 0

RECURSIVE Pushed(_)
Pushed(code) == IF code = <<>> THEN 0 ELSE Effect(Head(code)) + Pushed(Tail(code))

\* the code of an expression of the statement
CodeOf(c) == CodeOfExpression(c, 0, 0)

\* the code of the expressions of a list, one after the other
RECURSIVE CodeOfList(_)
CodeOfList(as) == IF as = <<>> THEN <<>> ELSE CodeOf(Head(as)) \o CodeOfList(Tail(as))

Compiled(kind) == phase = "compiled" /\ prog.kind = kind

\* C24: a while emits label T, code of c, not, if-goto E, code of S, goto T,
\* label E, with T # E, and no label of S is T or E: the labels of a loop
\* nested in S lie between if-goto E and goto T.
C24_WhileShape ==
    Compiled("while") =>
        LET cc == CodeOfExpression(prog.cond, prog.start, prog.start + 1)
            r == AfterStatements(prog.body, prog.start, prog.start + 1)
            out == eng.out
            ie == Len(cc) + 3
        IN  /\ Len(out) >= ie
            /\ LET T == out[1][2]
                   E == out[ie][2]
               IN  /\ T # E
                   /\ out = << <<"label", T>> >> \o cc
                            \o << <<"not">>, <<"if-goto", E>> >> \o r.out
                            \o << <<"goto", T>>, <<"label", E>> >>
                   /\ \A i \in 1..Len(r.out) :
                         r.out[i][1] = "label" => r.out[i][2] \notin {T, E}

\* while (a) { while (a) { let v = 0; } } with the counter at 0
C24_Witness ==
    /\ Compiled("while") /\ prog.start = 0 /\ prog.cond = <<"a">>
    /\ prog.body = <<"while", "(", "a", ")", "{", "let", "v", "=", "0", ";", "}">>
    /\ eng.out = << <<"label", "WHILE_START&0">>, <<"push", "argument", "0">>,
                    <<"not">>, <<"if-goto", "WHILE_END&0">>,
                    <<"label", "WHILE_START&1">>, <<"push", "argument", "0">>,
                    <<"not">>, <<"if-goto", "WHILE_END&1">>,
                    <<"push", "constant", "0">>, <<"pop", "local", "0">>,
                    <<"goto", "WHILE_START&1">>, <<"label", "WHILE_END&1">>,
                    <<"goto", "WHILE_START&0">>, <<"label", "WHILE_END&0">> >>

\* a return emits push constant 0 when no expression follows, else the code
\* of the expression, which pushes one value, and then one return
ReturnShape ==
    LET expr == Interleave(prog.terms, prog.ops)
        code == IF expr = <<>> THEN << <<"push", "constant", "0">> >>
                ELSE CodeOf(expr)
    IN  /\ eng.out = code \o << <<"return">> >>
        /\ Pushed(code) = 1

\* C25: every return statement emits one return instruction, preceded by
\* code that pushes exactly one value: push constant 0 when no expression
\* follows the keyword, otherwise the code of the expression alone.
C25_ReturnPushesOne == Compiled("return") => ReturnShape

\* C25 on the statements that use bound names only
ReturnOfBoundNames == (Compiled("return") /\ ~UsesUnbound(prog)) => ReturnShape

ReturnOfBoundNamesWitness ==
    /\ Compiled("return") /\ prog.terms = <<>>
    /\ eng.out = << <<"push", "constant", "0">>, <<"return">> >>

\* the code of the chain t1 op1 t2 op2 ...: code of t1, then for each
\* operator the code of its right term and its instruction
RECURSIVE ChainCode(_, _)
ChainCode(terms, ops) ==
    IF Len(terms) = 1 THEN <<TermCode(terms[1])>>
    ELSE ChainCode(SubSeq(terms, 1, Len(terms) - 1), SubSeq(ops, 1, Len(ops) - 1))
         \o <<TermCode(terms[Len(terms)]), OpCode(ops[Len(ops)])>>

\* C26: the code of t1 op1 t2 ... opn t(n+1) is the code of t1, the code of
\* t2, the instruction of op1, ..., the code of t(n+1), the instruction of
\* opn, in the order written, * and / as calls of Math.multiply and
\* Math.divide.
C26_LeftToRight ==
    (Compiled("return") /\ prog.terms # <<>> /\ ~UsesUnbound(prog))
        => eng.out = ChainCode(prog.terms, prog.ops) \o << <<"return">> >>

\* a + 1 * x: the add comes before the code of x
C26_Witness ==
    /\ Compiled("return") /\ prog.terms = <<"a", "1", "x">> /\ prog.ops = <<"+", "*">>
    /\ eng.out = << <<"push", "argument", "0">>, <<"push", "constant", "1">>,
                    <<"add">>, <<"push", "this", "0">>,
                    <<"call", "Math.multiply", "2">>, <<"return">> >>

\* a call emits the push of the receiver, if there is one, the code of the
\* arguments and a call whose count is the number of values pushed for it
CallShape ==
    LET n == Len(prog.args)
        c == prog.callee
        receiver == IF Len(c) = 1 THEN << <<"push", "pointer", "0">> >>
                    ELSE IF c[1] \in DOMAIN PushOf THEN <<PushOf[c[1]]>>
                    ELSE <<>>
        name == IF Len(c) = 1 THEN "Main." \o c[1]
                ELSE IF c[1] \in DOMAIN PushOf THEN TypeOf[c[1]] \o "." \o c[3]
                ELSE c[1] \o "." \o c[3]
        count == n + Len(receiver)
        pushes == receiver \o CodeOfList(prog.args)
    IN  /\ eng.out = pushes \o << <<"call", name, ToString(count)>>,
                                  <<"pop", "temp", "0">> >>
        /\ Pushed(pushes) = count

\* C27: name(args) emits push pointer 0, the argument code and call
\* Main.name n+1; v.m(args) with v bound emits the push of v, the argument
\* code and call <type of v>.m n+1; C.f(args) with C unbound emits the
\* argument code and call C.f n; the count of the call is the number of
\* values pushed for it.
C27_CallShape == Compiled("do") => CallShape

\* C27 on the statements that use bound names only
CallOfBoundNames == (Compiled("do") /\ ~UsesUnbound(prog)) => CallShape

CallOfBoundNamesWitness ==
    /\ Compiled("do") /\ prog.callee = <<"w", ".", "m">>
    /\ prog.args = << <<"a">>, <<"1", "+", "v">> >>
    /\ eng.out = << <<"push", "local", "1">>, <<"push", "argument", "0">>,
                    <<"push", "constant", "1">>, <<"push", "local", "0">>, <<"add">>,
                    <<"call", "Main.m", "3">>, <<"pop", "temp", "0">> >>

\* the pop into the binding of a name
PopOf(n) == <<"pop", PushOf[n][2], PushOf[n][3]>>

\* a let emits, for an array element, the push of the array, the code of
\* the index, add, the code of the expression and the four instructions of
\* the store; for a variable, the code of the expression and one pop into
\* the binding of the variable
LetShape ==
    /\ prog.target \in DOMAIN PushOf
    /\ IF prog.index # <<>>
       THEN eng.out = <<PushOf[prog.target]>> \o CodeOf(prog.index)
                      \o << <<"add">> >> \o CodeOf(prog.expr)
                      \o << <<"pop", "temp", "0">>, <<"pop", "pointer", "1">>,
                            <<"push", "temp", "0">>, <<"pop", "that", "0">> >>
       ELSE eng.out = CodeOf(prog.expr) \o <<PopOf(prog.target)>>

\* C28: let a[i] = e emits push of a, code of i, add, code of e, pop temp 0,
\* pop pointer 1, push temp 0, pop that 0, also when e holds an array
\* access; let v = e emits the code of e and exactly one pop into the
\* segment and index of v.
C28_LetShape == Compiled("let") => LetShape

\* C28 on the statements that use bound names only
LetOfBoundNames == (Compiled("let") /\ ~UsesUnbound(prog)) => LetShape

\* let x[a] = v[0];
LetOfBoundNamesWitness ==
    /\ Compiled("let") /\ prog.target = "x" /\ prog.index = <<"a">>
    /\ prog.expr = <<"v", "[", "0", "]">>
    /\ eng.out = << <<"push", "this", "0">>, <<"push", "argument", "0">>, <<"add">>,
                    <<"push", "local", "0">>, <<"push", "constant", "0">>, <<"add">>,
                    <<"pop", "pointer", "1">>, <<"push", "that", "0">>,
                    <<"pop", "temp", "0">>, <<"pop", "pointer", "1">>,
                    <<"push", "temp", "0">>, <<"pop", "that", "0">> >>

-----------------------------------------------------------------------------
(* The subroutine table after a subroutine declaration has been compiled *)

\* C23: in the table of a method the receiver this is argument 0, of the
\* type of the class, and the i-th declared parameter is argument i; in the
\* table of a function or constructor the i-th parameter is argument i - 1
\* and this is not bound, also when a method was compiled before it.
C23_ReceiverFirst ==
    LET k == Len(SelectSeq(eng.out, IsFunctionLine)) IN
    (phase \in {"subroutines", "done"} /\ k >= 1) =>
        LET s == prog.subs[k]
            first == IF s.kind = "method" THEN 1 ELSE 0
        IN  /\ \A i \in 1..Len(s.params) :
                  /\ kind_of(eng.sbt, s.params[i][2]) = "argument"
                  /\ type_of(eng.sbt, s.params[i][2]) = s.params[i][1]
                  /\ index_of(eng.sbt, s.params[i][2]) = i - 1 + first
            /\ IF s.kind = "method"
               THEN /\ kind_of(eng.sbt, "this") = "argument"
                    /\ type_of(eng.sbt, "this") = prog.name
                    /\ index_of(eng.sbt, "this") = 0
               ELSE "this" \notin DOMAIN eng.sbt.table

\* method m(int a, Main b), then function g(int a, Main b)
C23_Witness ==
    /\ phase = "done" /\ Len(prog.subs) = 2
    /\ prog.subs[1].name = "m" /\ prog.subs[2].name = "g"
    /\ index_of(eng.sbt, "a") = 0 /\ index_of(eng.sbt, "b") = 1
    /\ "this" \notin DOMAIN eng.sbt.table

\* the table right after method m(int a, Main b)
ReceiverBoundInMethod ==
    /\ phase = "subroutines" /\ prog.subs[1].name = "m"
    /\ Len(SelectSeq(eng.out, IsFunctionLine)) = 1
    /\ index_of(eng.sbt, "this") = 0
    /\ index_of(eng.sbt, "a") = 1 /\ index_of(eng.sbt, "b") = 2

=============================================================================
